---- MODULE Spec2Model ----
(***************************************************************************)
(* A model of github-stars-notify: the file-backed StateStore              *)
(* (internal/storage), the per-entity check cycle of the Service           *)
(* (internal/service) and the configuration Reloader (internal/config).    *)
(*                                                                         *)
(* Five specifications share the variables below:                          *)
(*   SpecStore   the StateStore alone, called by one thread;               *)
(*   SpecCrash   Save taken step by step in a process that can stop        *)
(*               between any two file-system operations;                   *)
(*   SpecSvc     the check cycle of the Service over the StateStore;       *)
(*   SpecCadence the loop of Start beside the Reloader, whose callback is  *)
(*               Service.handleConfigReload;                               *)
(*   SpecReload  the Reloader's handleConfigChange with its callbacks.     *)
(***************************************************************************)
EXTENDS Integers, Sequences, FiniteSets, TLC

VARIABLES
    files,      \* the data directory: file name -> <<>> (absent) or <<body>>
    mutex,      \* FileStorage.mutex: the thread holding the write lock, or ""
    st,         \* per thread: position and locals of its StateStore call
    history,    \* per entity: the lists of its last two successful Saves
    notifiers,  \* Service.notifiers: the provider names, in list order
    cancelled,  \* serviceCtx of Service.Start is cancelled
    svc,        \* the check loop: position and locals of runCheck/checkRepository
    calls,      \* the calls checkRepository has made for the current entity
    checked,    \* the checkRepository calls runCheck has made in this cycle
    loop,       \* the loop of Start: its ticker, currentInterval, s.github
    config,     \* Reloader.config: the live configuration snapshot
    callbacks,  \* Reloader.callbacks: the registered callbacks, in order
    configFile, \* the file at Reloader.configPath
    timer,      \* watchLoop's debounceTimer is armed
    watch,      \* watchLoop: time left on the timer, events not yet received
    rl,         \* handleConfigChange: position, locals and outcome
    invoked,    \* the callback invocations of the latest handleConfigChange
    rc,         \* a call of a retry decorator: position, locals, attempts made
    limiter,    \* RateLimitedNotifier.rateLimiter of the provider instance
    transport,  \* the requests the provider's webhook and GitHub have seen
    callCtx     \* the context of the decorated call: "live" or "done"

storeVars == <<files, mutex, st, history>>

svcVars == <<notifiers, cancelled, svc, calls, checked, loop>>

rlVars == <<config, callbacks, configFile, timer, watch, rl, invoked>>

pipeVars == <<rc, limiter, transport, callCtx>>

vars == <<files, mutex, st, history, notifiers, cancelled, svc, calls, checked,
          loop, config, callbacks, configFile, timer, watch, rl, invoked,
          rc, limiter, transport, callCtx>>

(***************************************************************************)
(* Data: github.Stargazer, storage.RepoData                                *)
(***************************************************************************)

\* github.Stargazer: ID is the identity, Login and StarredAt are payload.
Stargazer(id, login, at) == [id |-> id, login |-> login, starred_at |-> at]

SgA  == Stargazer(1, "alice", 10)
SgA2 == Stargazer(1, "alice-renamed", 11)
SgB  == Stargazer(2, "bob", 20)
SgC  == Stargazer(3, "carol", 30)

StargazerPool == {SgA, SgA2, SgB, SgC}

\* The longest member list a fetch returns or a Save stores.
MaxLen == 3

IDsOf(l) == {l[i].id : i \in DOMAIN l}

\* A repository is starred at most once by a user: IDs within a list differ.
StargazerLists ==
    UNION {{l \in [1..n -> StargazerPool] : Cardinality(IDsOf(l)) = n} : n \in 0..MaxLen}

\* The member lists the repositories are in over time: empty, growing by one
\* star at a time, and a list in another order whose first star was renamed.
SnapshotLists ==
    {<<>>, <<SgA>>, <<SgA, SgB>>, <<SgA, SgB, SgC>>, <<SgC, SgB, SgA2>>}

Repository(owner, repo) == [owner |-> owner, repo |-> repo]

Repo1 == Repository("facebook", "react")
Repo2 == Repository("golang", "go")

\* Two entities whose owner and name join to the same text around "_".
Repo3 == Repository("mona_acme", "app")
Repo4 == Repository("mona", "acme_app")

Repos == {Repo1, Repo2, Repo3, Repo4}

Threads == {"t1", "t2"}

\* time.Time{} and time.Now(), abstracted to whether the instant is the zero one.
ZeroTime == "zero"
Now == "now"

\* The RepoData Load returns when the file does not exist.
EmptyRepoData(owner, repo) ==
    [owner |-> owner, repo |-> repo, last_check |-> ZeroTime,
     stargazers |-> <<>>, previous_data |-> <<>>]

(***************************************************************************)
(* encoding/json on RepoData: previous_data has omitempty, so a nil        *)
(* PreviousData leaves no key in the document.                             *)
(***************************************************************************)
RECURSIVE Marshal(_)
Marshal(d) ==
    LET base == [owner |-> d.owner, repo |-> d.repo,
                 last_check |-> d.last_check, stargazers |-> d.stargazers]
    IN  IF d.previous_data = <<>>
        THEN base
        ELSE base @@ ("previous_data" :> Marshal(d.previous_data[1]))

RECURSIVE Unmarshal(_)
Unmarshal(doc) ==
    [owner |-> doc.owner, repo |-> doc.repo,
     last_check |-> doc.last_check, stargazers |-> doc.stargazers,
     previous_data |-> IF "previous_data" \in DOMAIN doc
                       THEN <<Unmarshal(doc.previous_data)>>
                       ELSE <<>>]

(***************************************************************************)
(* The file system under dataDir                                           *)
(***************************************************************************)
DataDir == "data"

getFilename(owner, repo) == DataDir \o "/" \o owner \o "_" \o repo \o ".json"

\* A slip: the document written straight to the snapshot file.
TempName_inPlace(filename) == filename

\* tempFile of Save.
TempName(filename) == filename \o ".tmp"

FileNames ==
    {getFilename(r.owner, r.repo) : r \in Repos}
        \cup {getFilename(r.owner, r.repo) \o ".tmp" : r \in Repos}

\* A file body: the whole document, or bytes cut short by an interrupted write.
Intact(doc) == [intact |-> TRUE, doc |-> <<doc>>]
Truncated   == [intact |-> FALSE, doc |-> <<>>]

Exists(fs, name) == fs[name] # <<>>

\* os.WriteFile opens with O_CREATE|O_TRUNC and then writes: OpenTrunc is the
\* file after the open, WriteFile the file after the complete write.
OpenTrunc(fs, name) == [fs EXCEPT ![name] = <<Truncated>>]

WriteFile(fs, name, doc) == [fs EXCEPT ![name] = <<Intact(doc)>>]

\* os.Rename replaces the target atomically.
Rename(fs, from, to) ==
    IF from = to THEN fs
    ELSE [fs EXCEPT ![to] = fs[from], ![from] = <<>>]

Remove(fs, name) == [fs EXCEPT ![name] = <<>>]

(***************************************************************************)
(* FileStorage                                                             *)
(***************************************************************************)
NoErr == ""

LoadResult(err, data) == [err |-> err, data |-> data]

\* A slip: a file that cannot be used is taken for a missing one.
LoadFailed_empty(err, owner, repo) ==
    LoadResult(NoErr, <<EmptyRepoData(owner, repo)>>)

\* The return of loadUnsafe and Load on a failing ReadFile or Unmarshal.
LoadFailed(err, owner, repo) == LoadResult(err, <<>>)

\* loadUnsafe: io = "read_err" is a failing os.ReadFile.
loadUnsafe(fs, owner, repo, io) ==
    LET filename == getFilename(owner, repo) IN
    IF ~Exists(fs, filename)
    THEN LoadResult(NoErr, <<EmptyRepoData(owner, repo)>>)
    ELSE IF io = "read_err"
    THEN LoadFailed("read", owner, repo)
    ELSE IF ~fs[filename][1].intact
    THEN LoadFailed("unmarshal", owner, repo)
    ELSE LoadResult(NoErr, <<Unmarshal(fs[filename][1].doc[1])>>)

\* Load: the same under the read lock, after the check of the context.
Load(fs, ctxDone, owner, repo, io) ==
    IF ctxDone THEN LoadResult("ctx", <<>>)
    ELSE loadUnsafe(fs, owner, repo, io)

\* A slip: the lookup keyed by the display handle.
KeyOf_login(sg) == sg.login

\* The key of the lookup map of GetNewStargazers: sg.ID.
KeyOf(sg) == sg.id

\* The loop of GetNewStargazers over currentStargazers.
RECURSIVE FindNew(_, _)
FindNew(existingStargazers, current) ==
    IF current = <<>> THEN <<>>
    ELSE LET sg == Head(current) IN
         IF KeyOf(sg) \in existingStargazers
         THEN FindNew(existingStargazers, Tail(current))
         ELSE <<sg>> \o FindNew(existingStargazers, Tail(current))

\* The set of keys of the map GetNewStargazers builds from the stored list.
ExistingStargazers(stargazers) == {KeyOf(stargazers[i]) : i \in DOMAIN stargazers}

\* GetNewStargazers. ctx is "live", "done" (cancelled before the call) or
\* "done_after_load" (cancelled between Load and the second check).
GetNewStargazers(fs, ctx, owner, repo, currentStargazers, io) ==
    LET loaded == Load(fs, ctx = "done", owner, repo, io) IN
    IF loaded.err # NoErr
    THEN [err |-> "load", out |-> <<>>]
    ELSE IF Len(loaded.data[1].stargazers) = 0
    THEN [err |-> NoErr, out |-> currentStargazers]
    ELSE IF ctx = "done_after_load"
    THEN [err |-> "ctx", out |-> <<>>]
    ELSE [err |-> NoErr,
          out |-> FindNew(ExistingStargazers(loaded.data[1].stargazers),
                          currentStargazers)]

\* A slip: the previous snapshot recorded even when it has no stargazers.
PreviousOf_always(existingData) ==
    <<[owner |-> existingData.owner, repo |-> existingData.repo,
       last_check |-> existingData.last_check,
       stargazers |-> existingData.stargazers,
       previous_data |-> <<>>]>>

\* A slip: the existing snapshot kept whole, its own PreviousData included.
PreviousOf_whole(existingData) ==
    IF Len(existingData.stargazers) > 0 THEN <<existingData>> ELSE <<>>

\* The PreviousData Save keeps: a copy of the existing snapshot without its
\* own PreviousData, and only when the existing list is non-empty.
PreviousOf(existingData) ==
    IF Len(existingData.stargazers) > 0
    THEN <<[owner |-> existingData.owner, repo |-> existingData.repo,
            last_check |-> existingData.last_check,
            stargazers |-> existingData.stargazers,
            previous_data |-> <<>>]>>
    ELSE <<>>

\* newData of Save.
NewData(existingData, owner, repo, stargazers) ==
    [owner |-> owner, repo |-> repo, last_check |-> Now,
     stargazers |-> stargazers, previous_data |-> PreviousOf(existingData)]

(***************************************************************************)
(* Thread state of a StateStore call                                       *)
(***************************************************************************)
NoRet ==
    [op |-> "", owner |-> "", repo |-> "", arg |-> <<>>, err |-> NoErr,
     data |-> <<>>, out |-> <<>>]

Ret(op, owner, repo, arg, err, data, out) ==
    [op |-> op, owner |-> owner, repo |-> repo, arg |-> arg, err |-> err,
     data |-> data, out |-> out]

Idle(ret) ==
    [pc |-> "idle", owner |-> "", repo |-> "", stargazers |-> <<>>,
     existingData |-> <<>>, newData |-> <<>>, ret |-> ret]

\* s.mutex.RLock is granted when no thread holds the write lock.
CanRLock == mutex = ""

\* A slip: Save goes on without the lock.
CanLock_always == TRUE

\* s.mutex.Lock is granted when no thread holds the lock; a reader holds it
\* only within its own step.
CanLock == mutex = ""

\* Load as a call of its own.
LoadCall(t, r) ==
    /\ st[t].pc = "idle"
    /\ CanRLock
    /\ \E ctxDone \in BOOLEAN, io \in {"ok", "read_err"} :
          LET res == Load(files, ctxDone, r.owner, r.repo, io) IN
          st' = [st EXCEPT ![t] =
                    Idle(Ret("Load", r.owner, r.repo, <<>>, res.err, res.data, <<>>))]
    /\ UNCHANGED <<files, mutex, history>>
    /\ UNCHANGED <<svcVars, rlVars, pipeVars>>

\* A slip: the stargazers reported are written to the snapshot at once.
AfterDiff_recorded(fs, owner, repo, res) ==
    IF res.err = NoErr /\ res.out # <<>>
    THEN WriteFile(fs, getFilename(owner, repo),
                   Marshal([EmptyRepoData(owner, repo) EXCEPT
                               !.stargazers = res.out]))
    ELSE fs

\* The files after GetNewStargazers, which only reads.
AfterDiff(fs, owner, repo, res) == fs

\* GetNewStargazers as a call of its own.
GetNewStargazersCall(t, r, lists) ==
    /\ st[t].pc = "idle"
    /\ CanRLock
    /\ \E current \in lists, ctx \in {"live", "done", "done_after_load"},
          io \in {"ok", "read_err"} :
          LET res == GetNewStargazers(files, ctx, r.owner, r.repo, current, io) IN
          /\ st' = [st EXCEPT ![t] =
                    Idle(Ret("GetNewStargazers", r.owner, r.repo, current,
                             res.err, <<>>, res.out))]
          /\ files' = AfterDiff(files, r.owner, r.repo, res)
    /\ UNCHANGED <<mutex, history>>
    /\ UNCHANGED <<svcVars, rlVars, pipeVars>>

\* Save up to the marshalled document: Lock, the check of the context,
\* loadUnsafe and the construction of newData.
SaveBegin(t, r, lists) ==
    /\ st[t].pc = "idle"
    /\ CanLock
    /\ \E stargazers \in lists, ctxDone \in BOOLEAN, io \in {"ok", "read_err"} :
          LET existing == loadUnsafe(files, r.owner, r.repo, io) IN
          IF ctxDone
          THEN /\ st' = [st EXCEPT ![t] =
                     Idle(Ret("Save", r.owner, r.repo, stargazers, "ctx", <<>>, <<>>))]
               /\ UNCHANGED mutex
          ELSE IF existing.err # NoErr
          THEN /\ st' = [st EXCEPT ![t] =
                     Idle(Ret("Save", r.owner, r.repo, stargazers, "load", <<>>, <<>>))]
               /\ UNCHANGED mutex
          ELSE /\ st' = [st EXCEPT ![t] =
                     [pc |-> "write", owner |-> r.owner, repo |-> r.repo,
                      stargazers |-> stargazers,
                      existingData |-> existing.data,
                      newData |-> <<NewData(existing.data[1], r.owner, r.repo, stargazers)>>,
                      ret |-> NoRet]]
               /\ mutex' = t
    /\ UNCHANGED <<files, history>>
    /\ UNCHANGED <<svcVars, rlVars, pipeVars>>

SaveFilename(t) == getFilename(st[t].owner, st[t].repo)

SaveRet(t, err) ==
    Ret("Save", st[t].owner, st[t].repo, st[t].stargazers, err, <<>>, <<>>)

\* os.WriteFile(tempFile): the open that creates or truncates the file.
SaveOpenTemp(t) ==
    /\ st[t].pc = "write"
    /\ \/ /\ files' = OpenTrunc(files, TempName(SaveFilename(t)))
          /\ st' = [st EXCEPT ![t].pc = "writing"]
          /\ UNCHANGED mutex
       \/ /\ st' = [st EXCEPT ![t] = Idle(SaveRet(t, "write"))]
          /\ mutex' = ""
          /\ UNCHANGED files
    /\ UNCHANGED history
    /\ UNCHANGED <<svcVars, rlVars, pipeVars>>

\* os.WriteFile(tempFile): the write of the document, whole or failing midway.
SaveWriteTemp(t) ==
    /\ st[t].pc = "writing"
    /\ \/ /\ files' = WriteFile(files, TempName(SaveFilename(t)),
                                Marshal(st[t].newData[1]))
          /\ st' = [st EXCEPT ![t].pc = "rename"]
          /\ UNCHANGED mutex
       \/ /\ st' = [st EXCEPT ![t] = Idle(SaveRet(t, "write"))]
          /\ mutex' = ""
          /\ UNCHANGED files
    /\ UNCHANGED history
    /\ UNCHANGED <<svcVars, rlVars, pipeVars>>

\* The lists of the last two successful Saves of an entity.
Remember(h, stargazers) ==
    IF h = <<>> THEN <<stargazers>> ELSE <<h[Len(h)], stargazers>>

\* os.Rename(tempFile, filename), os.Remove(tempFile) when it fails, return.
SaveRename(t) ==
    /\ st[t].pc = "rename"
    /\ \/ /\ files' = Rename(files, TempName(SaveFilename(t)), SaveFilename(t))
          /\ st' = [st EXCEPT ![t] = Idle(SaveRet(t, NoErr))]
          /\ history' = [history EXCEPT ![Repository(st[t].owner, st[t].repo)] =
                            Remember(@, st[t].stargazers)]
       \/ /\ files' = Remove(files, TempName(SaveFilename(t)))
          /\ st' = [st EXCEPT ![t] = Idle(SaveRet(t, "rename"))]
          /\ UNCHANGED history
    /\ mutex' = ""
    /\ UNCHANGED <<svcVars, rlVars, pipeVars>>

\* The process stops and a new one starts on the same data directory:
\* every call in flight is gone, the lock with it; the files stay.
Crash ==
    /\ \E t \in Threads : st[t].pc # "idle"
    /\ st' = [t \in Threads |->
                IF st[t].pc = "idle" THEN Idle(NoRet)
                ELSE Idle(Ret("Crash:" \o st[t].pc, st[t].owner, st[t].repo,
                              st[t].stargazers, NoErr, st[t].existingData, <<>>))]
    /\ mutex' = ""
    /\ UNCHANGED <<files, history>>
    /\ UNCHANGED <<svcVars, rlVars, pipeVars>>

\* Save as one call, for a caller that cannot observe its steps. io names the
\* file-system operation that fails, if any.
Save(fs, ctxDone, owner, repo, stargazers, io) ==
    LET filename == getFilename(owner, repo)
        tempFile == TempName(filename)
        existing == loadUnsafe(fs, owner, repo, io)
    IN  IF ctxDone THEN [err |-> "ctx", fs |-> fs]
        ELSE IF existing.err # NoErr THEN [err |-> "load", fs |-> fs]
        ELSE LET doc == Marshal(NewData(existing.data[1], owner, repo, stargazers)) IN
             IF io = "write_err"
             THEN [err |-> "write", fs |-> OpenTrunc(fs, tempFile)]
             ELSE IF io = "rename_err"
             THEN [err |-> "rename",
                   fs |-> Remove(WriteFile(fs, tempFile, doc), tempFile)]
             ELSE [err |-> NoErr,
                   fs |-> Rename(WriteFile(fs, tempFile, doc), tempFile, filename)]

(***************************************************************************)
(* config.Config                                                           *)
(***************************************************************************)
ProviderDiscord == "discord"
ProviderSlack == "slack"

\* config.Config: the fields the Service and the Reloader read.
Config(repositories, minutes, token, timeout, discord, slack, level, format) ==
    [repositories |-> repositories, check_interval_minutes |-> minutes,
     github_token |-> token, github_timeout |-> timeout,
     discord |-> discord, slack |-> slack,
     log_level |-> level, log_format |-> format]

DiscordConfig(url, enabled) == [webhook_url |-> url, enabled |-> enabled]

SlackConfig(url, channel, enabled) ==
    [webhook_url |-> url, channel |-> channel, enabled |-> enabled]

\* A configuration monitoring the given repositories, both providers enabled.
BaseConfig(repositories) ==
    Config(repositories, 60, "token-1", 30,
           DiscordConfig("https://discord/hook", TRUE),
           SlackConfig("https://slack/hook", "#stars", TRUE), "info", "text")

(***************************************************************************)
(* Service: runCheck and checkRepository                                   *)
(***************************************************************************)
\* The lists GitHub reports for a repository: none, two, three stargazers.
FetchLists == {<<>>, <<SgA, SgB>>, <<SgA, SgB, SgC>>}

\* The repository lists of the configurations the check cycle is run on.
RepositoryLists == {<<Repo1, Repo2>>, <<Repo1, Repo1>>}

\* Service.notifiers after notify.CreateNotifiersWithLogger: Discord before Slack.
NotifierLists == {<<>>, <<ProviderDiscord>>, <<ProviderDiscord, ProviderSlack>>}

SvcIdle ==
    [pc |-> "idle", repos |-> <<>>, idx |-> 0, stargazers |-> <<>>,
     newStargazers |-> <<>>, ns |-> <<>>, nidx |-> 0]

\* One call of checkRepository to a collaborator, with what metrics recorded.
Call(fn, provider, owner, repo, arg, out, err, metric) ==
    [fn |-> fn, provider |-> provider, owner |-> owner, repo |-> repo,
     arg |-> arg, out |-> out, err |-> err, metric |-> metric]

\* The entity checkRepository is running on.
Current == svc.repos[svc.idx]

\* A slip: the cycle given up at the first failing repository.
NextPosition_abort(idx, err, n) == IF err # NoErr THEN n + 1 ELSE idx + 1

\* runCheck's loop: the position after idx, whatever checkRepository returned.
NextPosition(idx, err, n) == idx + 1

\* checkRepository returns err to runCheck, which goes on with the next entity.
Return(err) ==
    LET next == NextPosition(svc.idx, err, Len(svc.repos)) IN
    /\ checked' = Append(checked, [pos |-> svc.idx, owner |-> Current.owner,
                                   repo |-> Current.repo, err |-> err])
    /\ svc' = [SvcIdle EXCEPT !.pc = IF next > Len(svc.repos) THEN "ratelimit"
                                      ELSE "fetch",
                              !.repos = svc.repos, !.idx = next]

\* The ticker fires: runCheck reads the live configuration and starts the loop.
Tick ==
    /\ svc.pc = "idle"
    /\ svc' = [SvcIdle EXCEPT !.pc = IF config.repositories = <<>>
                                      THEN "ratelimit" ELSE "fetch",
                              !.repos = config.repositories, !.idx = 1]
    /\ checked' = <<>>
    /\ calls' = <<>>
    /\ UNCHANGED <<loop, notifiers, cancelled, storeVars, rlVars, pipeVars>>

\* s.github.GetStargazersWithRetry: a list, or an error; with the context
\* cancelled the request fails.
FetchCall(lists) ==
    /\ svc.pc = "fetch"
    /\ \/ /\ ~cancelled
          /\ \E stargazers \in lists :
                /\ calls' = <<Call("GetStargazersWithRetry", "", Current.owner,
                                   Current.repo, <<>>, stargazers, NoErr,
                                   "github_api:success")>>
                /\ svc' = [svc EXCEPT !.pc = "diff", !.stargazers = stargazers]
                /\ UNCHANGED checked
       \/ /\ calls' = <<Call("GetStargazersWithRetry", "", Current.owner,
                             Current.repo, <<>>, <<>>, "github",
                             "github_api_error")>>
          /\ Return("github")
    /\ UNCHANGED <<notifiers, cancelled, storeVars, rlVars, pipeVars>>

FetchFrom(lists) == FetchCall(lists) /\ UNCHANGED loop

Fetch == FetchFrom(FetchLists)

\* A slip: the error of GetNewStargazers ignored.
DiffFailed_ignored(res) == FALSE

\* The test of the error GetNewStargazers returned.
DiffFailed(res) == res.err # NoErr

\* s.storage.GetNewStargazers, and the choice between notifying and saving.
DiffCall ==
    /\ svc.pc = "diff"
    /\ \E ctx \in (IF cancelled THEN {"done"} ELSE {"live", "done_after_load"}),
          io \in {"ok", "read_err"} :
          LET res == GetNewStargazers(files, ctx, Current.owner, Current.repo,
                                      svc.stargazers, io)
          IN  /\ cancelled' = (ctx # "live")
              /\ calls' = Append(calls,
                    Call("GetNewStargazers", "", Current.owner, Current.repo,
                         svc.stargazers, res.out, res.err,
                         IF res.err # NoErr THEN "storage_error" ELSE ""))
              /\ IF DiffFailed(res)
                 THEN Return("storage")
                 ELSE /\ svc' = [svc EXCEPT
                            !.pc = IF Len(res.out) > 0 /\ Len(notifiers) > 0
                                   THEN "notify" ELSE "save",
                            !.newStargazers = res.out,
                            !.ns = IF Len(res.out) > 0 THEN notifiers ELSE <<>>,
                            !.nidx = 1]
                      /\ UNCHANGED checked
    /\ UNCHANGED <<notifiers, storeVars, rlVars, pipeVars>>

Diff == DiffCall /\ UNCHANGED loop

\* A slip: the loop over the notifiers left at the first failure.
NextNotifier_break(nidx, err, n) == IF err # NoErr THEN n + 1 ELSE nidx + 1

\* The loop over s.notifiers: the notifier after nidx, whatever it returned.
NextNotifier(nidx, err, n) == nidx + 1

\* notifier.NotifyNewStars for one notifier; it fails when the context is
\* cancelled and may fail otherwise.
Notify ==
    /\ svc.pc = "notify"
    /\ \E err \in (IF cancelled THEN {"notification"} ELSE {NoErr, "notification"}) :
          LET next == NextNotifier(svc.nidx, err, Len(svc.ns)) IN
          /\ calls' = Append(calls,
                Call("NotifyNewStars", svc.ns[svc.nidx], Current.owner,
                     Current.repo, svc.newStargazers, <<>>, err,
                     IF err # NoErr THEN "notification_failed" ELSE "success"))
          /\ svc' = [svc EXCEPT !.nidx = next,
                                !.pc = IF next > Len(svc.ns) THEN "save" ELSE "notify"]
    /\ UNCHANGED <<loop, notifiers, cancelled, checked, storeVars, rlVars, pipeVars>>

\* A slip: only the new stargazers saved.
SaveArg_new(stargazers, newStargazers) == newStargazers

\* The list checkRepository hands to Save.
SaveArg(stargazers, newStargazers) == stargazers

\* s.storage.Save and the return of checkRepository.
SaveCall ==
    /\ svc.pc = "save"
    /\ \E io \in {"ok", "read_err", "write_err", "rename_err"} :
          LET arg == SaveArg(svc.stargazers, svc.newStargazers)
              res == Save(files, cancelled, Current.owner, Current.repo, arg, io)
          IN  /\ files' = res.fs
              /\ history' = IF res.err = NoErr
                            THEN [history EXCEPT ![Current] = Remember(@, arg)]
                            ELSE history
              /\ calls' = Append(calls,
                    Call("Save", "", Current.owner, Current.repo, arg, <<>>,
                         res.err,
                         IF res.err # NoErr THEN "storage_save_error" ELSE "success"))
              /\ Return(IF res.err # NoErr THEN "storage" ELSE NoErr)
    /\ UNCHANGED <<notifiers, cancelled, mutex, st, rlVars, pipeVars>>

SaveSnapshot == SaveCall /\ UNCHANGED loop

\* A record kept beside the service: loop.delivered[r] holds the identities
\* that were handed to the notifiers of entity r in a cycle, for as long as
\* every cycle of r since has succeeded with the identity in its fetched
\* list. It is brought up to date when checkRepository returns.
Track ==
    loop' =
      IF Len(checked') > Len(checked)
      THEN LET rec == checked'[Len(checked')]
               r == Repository(rec.owner, rec.repo)
           IN  [loop EXCEPT !.delivered[r] =
                  IF rec.err = NoErr
                  THEN (@ \cap IDsOf(svc.stargazers))
                       \cup (IF svc.ns # <<>> THEN IDsOf(svc.newStargazers)
                             ELSE {})
                  ELSE {}]
      ELSE loop

FetchTracked(lists) == FetchCall(lists) /\ Track

DiffTracked == DiffCall /\ Track

SaveTracked == SaveCall /\ Track

\* checkRateLimits at the end of runCheck; its result is only logged.
CycleEnd ==
    /\ svc.pc = "ratelimit"
    /\ svc' = [svc EXCEPT !.pc = "idle"]
    /\ UNCHANGED <<loop, notifiers, cancelled, calls, checked, storeVars, rlVars, pipeVars>>

\* Service.Stop, or the parent context, cancels serviceCtx.
Cancel ==
    /\ ~cancelled
    /\ svc.pc # "stopped"
    /\ cancelled' = TRUE
    /\ UNCHANGED <<loop, notifiers, svc, calls, checked, storeVars, rlVars, pipeVars>>

\* The loop of Start takes the case <-serviceCtx.Done().
LoopExit ==
    /\ svc.pc = "idle"
    /\ cancelled
    /\ svc' = [svc EXCEPT !.pc = "stopped"]
    /\ UNCHANGED <<loop, notifiers, cancelled, calls, checked, storeVars, rlVars, pipeVars>>

(***************************************************************************)
(* config.Load                                                             *)
(***************************************************************************)
\* The file at configPath: missing, not YAML, or a YAML document. The
\* document is the Config yaml.Unmarshal fills in, absent keys zero. The
\* environment variables of applyEnvOverrides are unset.
MissingFile == [kind |-> "missing", doc |-> <<>>]
GarbageFile == [kind |-> "garbage", doc |-> <<>>]
YamlFile(doc) == [kind |-> "yaml", doc |-> <<doc>>]

LoadError(err) == [err |-> err, cfg |-> <<>>]

validate(c) ==
    IF Len(c.repositories) = 0
    THEN "at least one repository must be configured"
    ELSE IF \E i \in DOMAIN c.repositories : c.repositories[i].owner = ""
    THEN "repository: owner is required"
    ELSE IF \E i \in DOMAIN c.repositories : c.repositories[i].repo = ""
    THEN "repository: repo is required"
    ELSE IF c.discord.enabled /\ c.discord.webhook_url = ""
    THEN "discord webhook URL is required when discord notifications are enabled"
    ELSE IF c.slack.enabled /\ c.slack.webhook_url = ""
    THEN "slack webhook URL is required when slack notifications are enabled"
    ELSE IF c.log_level \notin {"", "debug", "info", "warn", "error"}
    THEN "invalid log level"
    ELSE IF c.log_format \notin {"", "json", "text"}
    THEN "invalid log format"
    ELSE NoErr

setDefaults(c) ==
    [c EXCEPT !.check_interval_minutes = IF @ = 0 THEN 60 ELSE @,
              !.github_timeout = IF @ = 0 THEN 30 ELSE @,
              !.log_level = IF @ = "" THEN "info" ELSE @,
              !.log_format = IF @ = "" THEN "text" ELSE @]

\* config.Load(path)
LoadConfig(file) ==
    IF file.kind = "missing" THEN LoadError("failed to read config file")
    ELSE IF file.kind = "garbage" THEN LoadError("failed to parse config file")
    ELSE IF validate(file.doc[1]) # NoErr
    THEN LoadError("invalid configuration: " \o validate(file.doc[1]))
    ELSE [err |-> NoErr, cfg |-> <<setDefaults(file.doc[1])>>]

\* time.Minute, in seconds.
Minute == 60

GetCheckInterval(c) == c.check_interval_minutes * Minute

GetGitHubTimeout(c) == c.github_timeout

\* slog.Level
GetLogLevel(c) ==
    CASE c.log_level = "debug" -> 0 - 4
      [] c.log_level = "info" -> 0
      [] c.log_level = "warn" -> 4
      [] c.log_level = "error" -> 8
      [] OTHER -> 0

\* The documents written to the configuration file.
BaseDoc == BaseConfig(<<Repo1>>)

ConfigDocs ==
    {BaseDoc,
     [BaseDoc EXCEPT !.repositories = <<Repo1, Repo2>>],
     [BaseDoc EXCEPT !.check_interval_minutes = 5],
     [BaseDoc EXCEPT !.github_token = "token-2"],
     [BaseDoc EXCEPT !.slack = SlackConfig("", "", FALSE)],
     [BaseDoc EXCEPT !.log_level = "debug"],
     [BaseDoc EXCEPT !.check_interval_minutes = 0, !.github_timeout = 0,
                     !.log_level = "", !.log_format = ""],
     [BaseDoc EXCEPT !.github_token = ""],
     [BaseDoc EXCEPT !.check_interval_minutes = 0 - 5],
     [BaseDoc EXCEPT !.repositories = <<>>],
     [BaseDoc EXCEPT !.repositories = <<Repository("", "react")>>],
     [BaseDoc EXCEPT !.discord = DiscordConfig("", TRUE)],
     [BaseDoc EXCEPT !.log_level = "verbose"],
     [BaseDoc EXCEPT !.log_format = "json"]}

ConfigFiles == {MissingFile, GarbageFile} \cup {YamlFile(doc) : doc \in ConfigDocs}

(***************************************************************************)
(* config.Reloader                                                         *)
(***************************************************************************)
\* The most callbacks registered with AddCallback.
MaxCallbacks == 2

validateConfig(c) ==
    IF Len(c.repositories) = 0 THEN "no repositories configured"
    ELSE IF c.github_token = "" THEN "github token is required"
    ELSE IF GetCheckInterval(c) < Minute
    THEN "check interval must be at least 1 minute"
    ELSE NoErr

\* A slip: the lists compared as sets of entities.
equalRepositories_asSets(a, b) ==
    {a[i] : i \in DOMAIN a} = {b[i] : i \in DOMAIN b}

equalRepositories(a, b) ==
    /\ Len(a) = Len(b)
    /\ \A i \in DOMAIN a : a[i].owner = b[i].owner /\ a[i].repo = b[i].repo

\* The fields of config.Notifications.
equalNotifications(a, b) ==
    /\ a.discord.enabled = b.discord.enabled
    /\ a.discord.webhook_url = b.discord.webhook_url
    /\ a.slack.enabled = b.slack.enabled
    /\ a.slack.webhook_url = b.slack.webhook_url
    /\ a.slack.channel = b.slack.channel

Change(changed, name) == IF changed THEN <<name>> ELSE <<>>

\* A slip: the comparison of the tokens left out.
detectChanges_noToken(oldConfig, newConfig) ==
    Change(~equalRepositories(oldConfig.repositories, newConfig.repositories),
           "repositories")
    \o Change(GetCheckInterval(oldConfig) # GetCheckInterval(newConfig),
              "check_interval")
    \o Change(GetGitHubTimeout(oldConfig) # GetGitHubTimeout(newConfig),
              "github_timeout")
    \o Change(~equalNotifications(oldConfig, newConfig), "notifications")
    \o Change(GetLogLevel(oldConfig) # GetLogLevel(newConfig), "log_level")

detectChanges(oldConfig, newConfig) ==
    Change(~equalRepositories(oldConfig.repositories, newConfig.repositories),
           "repositories")
    \o Change(GetCheckInterval(oldConfig) # GetCheckInterval(newConfig),
              "check_interval")
    \o Change(oldConfig.github_token # newConfig.github_token, "github_token")
    \o Change(GetGitHubTimeout(oldConfig) # GetGitHubTimeout(newConfig),
              "github_timeout")
    \o Change(~equalNotifications(oldConfig, newConfig), "notifications")
    \o Change(GetLogLevel(oldConfig) # GetLogLevel(newConfig), "log_level")

\* The debounce window of watchLoop, 200 ms, in ticks of 100 ms.
DebounceWindow == 2

\* The most events waiting in watcher.Events, and the most the count of a
\* burst goes up to.
MaxPending == 2
MaxBurst == 3

\* watchLoop before any event: the timer is stopped. left is the time to
\* the expiry of an armed timer; for the latest burst of events (each
\* received while the timer set by the one before was running), burst
\* counts the events, attempts the calls of handleConfigChange and quiet
\* the time since the last event.
\* running is r.running, watcher the fsnotify watcher ("open", "closed"),
\* ctx the context of watchLoop as Reloader.Stop leaves it, goroutine the
\* watchLoop ("none", "running", "exited"), stopped whether a call of
\* Reloader.Stop has returned. NewWatch is the Reloader after Start.
NewWatch ==
    [left |-> 0, pending |-> 0, burst |-> 0, attempts |-> 0, quiet |-> 0,
     running |-> TRUE, watcher |-> "open", ctx |-> "live",
     goroutine |-> "running", stopped |-> FALSE]

\* NewReloader: the watcher is created, nothing is running.
Created == [NewWatch EXCEPT !.running = FALSE, !.goroutine = "none"]

\* Reloader.Start: it fails when the Reloader is running and when the
\* watcher, closed or failing, cannot add the file; otherwise watchLoop is
\* started on a child of the context given.
ReloaderStart(w, addFails) ==
    IF w.running THEN [err |-> "reloader is already running", w |-> w]
    ELSE IF w.watcher = "closed" \/ addFails
    THEN [err |-> "failed to watch config file", w |-> w]
    ELSE [err |-> NoErr,
          w |-> [w EXCEPT !.running = TRUE, !.goroutine = "running",
                          !.ctx = "live", !.stopped = FALSE]]

\* Reloader.Stop: nothing when the Reloader is not running; otherwise the
\* context of watchLoop is cancelled and the watcher closed.
ReloaderStop(w) ==
    IF ~w.running THEN [w EXCEPT !.stopped = TRUE]
    ELSE [w EXCEPT !.running = FALSE, !.ctx = "done", !.watcher = "closed",
                   !.stopped = TRUE]

\* A slip: the reload carried on with an empty list of changes.
NoChanges_goOn(changes) == FALSE

\* if len(changes) == 0: handleConfigChange returns.
NoChanges(changes) == Len(changes) = 0

\* handleConfigChange has not run yet.
RlIdle ==
    [pc |-> "idle", result |-> "", oldConfig |-> <<>>, newConfig |-> <<>>,
     callbacks |-> <<>>, i |-> 0]

\* handleConfigChange returns with the given outcome.
Done(result, oldConfig, newConfig, cbs) ==
    [pc |-> "idle", result |-> result, oldConfig |-> oldConfig,
     newConfig |-> newConfig, callbacks |-> cbs, i |-> 0]

\* Reloader.AddCallback: the n-th registered callback is named n.
AddCallback ==
    /\ Len(callbacks) < MaxCallbacks
    /\ callbacks' = Append(callbacks, Len(callbacks) + 1)
    /\ UNCHANGED <<config, configFile, timer, watch, rl, invoked, storeVars,
                   svcVars, pipeVars>>

\* The file is written (or written and removed again before the timer
\* fires); watchLoop receives the Write or Create event and resets the
\* debounce timer.
ConfigFileWritten(written) ==
    /\ \E file \in written \ {configFile} : configFile' = file
    /\ timer' = TRUE
    /\ UNCHANGED <<config, callbacks, watch, rl, invoked, storeVars, svcVars, pipeVars>>

WriteConfigFile == ConfigFileWritten(ConfigFiles)

Invalid_logged(err) == FALSE

\* validateConfig has returned an error: handleConfigChange returns.
Invalid(err) == err # NoErr

\* watchLoop takes the case <-debounceTimer.C and calls handleConfigChange
\* from the loop itself, so no earlier call is still running: Load,
\* validateConfig, the copy of config and callbacks, detectChanges.
handleConfigChange ==
    /\ watch.goroutine = "running"
    /\ timer
    /\ rl.pc = "idle"
    /\ rl.result # "panicked"
    /\ timer' = FALSE
    /\ invoked' = <<>>
    /\ LET loaded == LoadConfig(configFile)
           newConfig == loaded.cfg[1]
       IN  IF loaded.err # NoErr
           THEN rl' = Done("load_failed", <<>>, <<>>, <<>>)
           ELSE IF Invalid(validateConfig(newConfig))
           THEN rl' = Done("invalid", <<>>, <<newConfig>>, <<>>)
           ELSE IF NoChanges(detectChanges(config, newConfig))
           THEN rl' = Done("no_changes", <<config>>, <<newConfig>>, callbacks)
           ELSE rl' = [pc |-> IF callbacks = <<>> THEN "swap" ELSE "callbacks",
                       result |-> "running", oldConfig |-> <<config>>,
                       newConfig |-> <<newConfig>>, callbacks |-> callbacks,
                       i |-> 1]
    /\ UNCHANGED <<config, callbacks, configFile, storeVars, svcVars, pipeVars>>

\* The timer fires at some time after the last event.
ReloadBegin == handleConfigChange /\ UNCHANGED watch

CallbackFailed_ignored(err) == FALSE

\* callback(oldConfig, newConfig) has returned an error: handleConfigChange
\* returns.
CallbackFailed(err) == err # NoErr

\* A slip: the loop over the callbacks left after its first iteration.
LastCallback_first(i, cbs) == TRUE

\* The range over the copied callbacks is at its last element.
LastCallback(i, cbs) == i = Len(cbs)

\* One iteration of the loop over the copied callbacks.
RunCallback ==
    /\ rl.pc = "callbacks"
    /\ \E err \in {NoErr, "callback failed"} :
        /\ invoked' = Append(invoked, [callback |-> rl.callbacks[rl.i],
                                       oldConfig |-> rl.oldConfig[1],
                                       newConfig |-> rl.newConfig[1],
                                       err |-> err])
        /\ rl' = IF CallbackFailed(err)
                 THEN Done("callback_failed", rl.oldConfig, rl.newConfig,
                           rl.callbacks)
                 ELSE [rl EXCEPT !.i = @ + 1,
                                 !.pc = IF LastCallback(rl.i, rl.callbacks)
                                        THEN "swap" ELSE "callbacks"]
    /\ UNCHANGED <<config, callbacks, configFile, timer, watch, storeVars,
                   svcVars, pipeVars>>

\* r.config = newConfig under r.mu.
Swap ==
    /\ rl.pc = "swap"
    /\ config' = rl.newConfig[1]
    /\ rl' = Done("reloaded", rl.oldConfig, rl.newConfig, rl.callbacks)
    /\ UNCHANGED <<callbacks, configFile, timer, watch, invoked, storeVars,
                   svcVars, pipeVars>>

\* The file is written: fsnotify has an event for watchLoop.
ConfigFileEventFrom(written) ==
    /\ watch.pending < MaxPending
    /\ \E file \in written \ {configFile} : configFile' = file
    /\ watch' = [watch EXCEPT !.pending = @ + 1]
    /\ UNCHANGED <<config, callbacks, timer, rl, invoked, storeVars, svcVars, pipeVars>>

ConfigFileEvent == ConfigFileEventFrom(ConfigFiles)

\* A slip: a running timer left alone, so that it fires a window after the
\* first event of a burst.
ResetTimer_keep(armed, left) == IF armed /\ left > 0 THEN left ELSE DebounceWindow

\* debounceTimer.Reset(200 * time.Millisecond)
ResetTimer(armed, left) == DebounceWindow

\* watchLoop, in its select, takes the case of r.watcher.Events.
EventReceived ==
    /\ watch.goroutine = "running"
    /\ watch.watcher = "open"
    /\ rl.pc = "idle"
    /\ watch.pending > 0
    /\ timer' = TRUE
    /\ watch' = [watch EXCEPT
           !.pending = @ - 1,
           !.left = ResetTimer(timer, @),
           !.burst = IF timer THEN (IF @ < MaxBurst THEN @ + 1 ELSE @) ELSE 1,
           !.attempts = IF timer THEN @ ELSE 0,
           !.quiet = 0]
    /\ UNCHANGED <<config, callbacks, configFile, rl, invoked, storeVars,
                   svcVars, pipeVars>>

\* A tick of time passes; watchLoop, when in its select, has left nothing
\* it could receive.
TimePasses ==
    /\ rl.pc = "idle" => watch.pending = 0 /\ ~(timer /\ watch.left = 0)
    /\ watch' = [watch EXCEPT
           !.left = IF @ > 0 THEN @ - 1 ELSE 0,
           !.quiet = IF @ < DebounceWindow THEN @ + 1 ELSE @]
    /\ UNCHANGED <<config, callbacks, configFile, timer, rl, invoked,
                   storeVars, svcVars, pipeVars>>

\* watchLoop takes the case <-debounceTimer.C of the expired timer.
DebounceFire ==
    /\ watch.left = 0
    /\ handleConfigChange
    /\ watch' = [watch EXCEPT !.attempts = @ + 1]

\* Reloader.Start is called with the context of the service.
StartReloader ==
    /\ \E addFails \in BOOLEAN : watch' = ReloaderStart(watch, addFails).w
    /\ UNCHANGED <<config, callbacks, configFile, timer, rl, invoked,
                   storeVars, svcVars, pipeVars>>

\* Reloader.Stop is called.
StopReloader ==
    /\ watch' = ReloaderStop(watch)
    /\ UNCHANGED <<config, callbacks, configFile, timer, rl, invoked,
                   storeVars, svcVars, pipeVars>>

\* watchLoop, in its select, takes the case <-ctx.Done() or finds the
\* channel of the closed watcher closed, and returns.
WatchLoopExit ==
    /\ watch.goroutine = "running"
    /\ rl.pc = "idle"
    /\ cancelled \/ watch.ctx = "done" \/ watch.watcher = "closed"
    /\ watch' = [watch EXCEPT !.goroutine = "exited"]
    /\ UNCHANGED <<config, callbacks, configFile, timer, rl, invoked,
                   storeVars, svcVars, pipeVars>>

(***************************************************************************)
(* Service: the loop of Start and handleConfigReload                       *)
(***************************************************************************)
\* notify.CreateNotifiersWithConfig: Discord, then Slack, each if enabled.
CreateNotifiers(c) ==
    (IF c.discord.enabled THEN <<ProviderDiscord>> ELSE <<>>)
    \o (IF c.slack.enabled THEN <<ProviderSlack>> ELSE <<>>)

\* The notifiers as the factory builds them: a base notifier of a provider,
\* and the decorators, each holding the notifier it wraps.
BaseNotifier(provider) == [kind |-> "base", provider |-> provider]

NewRateLimitedNotifier(notifier) == [kind |-> "rate_limited", notifier |-> <<notifier>>]

NewRetryableNotifier(notifier) == [kind |-> "retryable", notifier |-> <<notifier>>]

\* A slip: the retry decorator put straight around the base notifier.
Decorate_unlimited(baseNotifier) == NewRetryableNotifier(baseNotifier)

\* The two wrappings of the factory: rate limiting, then retry around it.
Decorate(baseNotifier) ==
    NewRetryableNotifier(NewRateLimitedNotifier(baseNotifier))

\* notify.CreateNotifiersWithConfig with the notifiers themselves.
CreateNotifiersWithConfig(c) ==
    (IF c.discord.enabled THEN <<Decorate(BaseNotifier(ProviderDiscord))>>
     ELSE <<>>)
    \o (IF c.slack.enabled THEN <<Decorate(BaseNotifier(ProviderSlack))>>
        ELSE <<>>)

\* notify.CreateNotifierWithConfig: one notifier by the name of its type.
CreateNotifierWithConfig(notifierType) ==
    IF notifierType \in {ProviderDiscord, ProviderSlack}
    THEN [err |-> NoErr, notifier |-> <<Decorate(BaseNotifier(notifierType))>>]
    ELSE [err |-> "unsupported notifier type", notifier |-> <<>>]

\* GetProviderName: each decorator hands the call to what it wraps.
RECURSIVE GetProviderName(_)
GetProviderName(n) ==
    IF n.kind = "base" THEN n.provider ELSE GetProviderName(n.notifier[1])

\* The decorators of a notifier, from the outermost in.
RECURSIVE Decorators(_)
Decorators(n) ==
    IF n.kind = "base" THEN <<>> ELSE <<n.kind>> \o Decorators(n.notifier[1])

\* A call of NotifyNewStars on n goes through a RateLimitedNotifier.
PassesRateLimiter(n) ==
    \E k \in DOMAIN Decorators(n) : Decorators(n)[k] = "rate_limited"

\* The client New and handleConfigReload build from a configuration.
GitHubClient(c) == [token |-> c.github_token, timeout |-> GetGitHubTimeout(c)]

\* Start enters its loop under configuration c: the ticker runs at the
\* check interval, no cadence signal was sent or consumed.
NewLoop(c) ==
    [currentInterval |-> GetCheckInterval(c), period |-> GetCheckInterval(c),
     signal |-> "", read |-> <<>>, github |-> GitHubClient(c),
     running |-> TRUE, ret |-> <<>>, tickerUpdate |-> "open",
     stopped |-> FALSE, reprobes |-> <<>>,
     delivered |-> [r \in Repos |-> {}]]

\* The non-blocking send on the unbuffered s.tickerUpdate: it is received
\* only by a loop waiting in its select, and on the channel Stop has closed
\* it panics: "send on closed channel".
SendTickerUpdate ==
    IF loop.tickerUpdate = "closed" THEN "panic"
    ELSE IF svc.pc = "idle" THEN "sent" ELSE "dropped"

\* A slip: the error of a failed TestConnection returned by the callback.
ReprobeFatal_returned(err) == err # NoErr

\* A failed TestConnection of a rebuilt notifier is recorded and logged.
ReprobeFatal(err) == FALSE

\* Service.handleConfigReload, the callback NewWithDependencies registers:
\* it rebuilds the client and the notifiers, probes the new notifiers with
\* context.Background() (loop.reprobes; the outcome is only logged), signals
\* a changed interval and returns nil.
HandleConfigReload ==
    /\ rl.pc = "callbacks"
    /\ LET oldConfig == rl.oldConfig[1]
           newConfig == rl.newConfig[1]
           rebuilt == ~equalNotifications(oldConfig, newConfig)
           newNotifiers == IF rebuilt THEN CreateNotifiers(newConfig) ELSE notifiers
           intervalChanged ==
               GetCheckInterval(oldConfig) # GetCheckInterval(newConfig)
           signal == IF intervalChanged THEN SendTickerUpdate ELSE ""
       IN  \E errs \in [1..(IF rebuilt THEN Len(newNotifiers) ELSE 0) ->
                            {NoErr, "notification"}] :
           LET cbErr == IF \E k \in DOMAIN errs : ReprobeFatal(errs[k])
                        THEN "callback failed" ELSE NoErr
           IN
           /\ notifiers' = newNotifiers
           /\ loop' = [loop EXCEPT
                  !.github = IF \/ oldConfig.github_token # newConfig.github_token
                                \/ GetGitHubTimeout(oldConfig)
                                     # GetGitHubTimeout(newConfig)
                             THEN GitHubClient(newConfig) ELSE @,
                  !.reprobes = [k \in DOMAIN errs |->
                                  [provider |-> newNotifiers[k], err |-> errs[k]]],
                  !.signal = IF cbErr = NoErr THEN signal ELSE "",
                  !.read = IF cbErr = NoErr /\ signal = "sent" THEN <<>> ELSE @]
           /\ svc' = IF cbErr = NoErr /\ signal = "sent"
                     THEN [svc EXCEPT !.pc = "update"] ELSE svc
           /\ invoked' = Append(invoked, [callback |-> rl.callbacks[rl.i],
                                          oldConfig |-> oldConfig,
                                          newConfig |-> newConfig,
                                          err |-> cbErr])
           /\ rl' = IF signal = "panic"
                    THEN Done("panicked", rl.oldConfig, rl.newConfig,
                              rl.callbacks)
                    ELSE IF CallbackFailed(cbErr)
                    THEN Done("callback_failed", rl.oldConfig, rl.newConfig,
                              rl.callbacks)
                    ELSE [rl EXCEPT !.i = @ + 1,
                                    !.pc = IF LastCallback(rl.i, rl.callbacks)
                                           THEN "swap" ELSE "callbacks"]
    /\ UNCHANGED <<config, callbacks, configFile, timer, watch, cancelled,
                   calls, checked, storeVars, pipeVars>>

\* The loop has received from s.tickerUpdate: it reads the check interval
\* of the live configuration and resets the ticker if it differs.
TickerUpdate ==
    /\ svc.pc = "update"
    /\ LET newInterval == GetCheckInterval(config) IN
       loop' = [loop EXCEPT !.read = <<newInterval>>,
                            !.period = newInterval,
                            !.currentInterval = newInterval]
    /\ svc' = [svc EXCEPT !.pc = "idle"]
    /\ UNCHANGED <<notifiers, cancelled, calls, checked, storeVars, rlVars, pipeVars>>

(***************************************************************************)
(* The retry decorators: github.RetryableClient, notify.RetryableNotifier  *)
(* over notify.RateLimitedNotifier over the base notifier                  *)
(***************************************************************************)
\* maxRetries and backoff of NewRetryableClient and DefaultNotifierConfig,
\* and RateLimitWindow; the durations in ticks of two seconds.
MaxRetries == 3
RetryBackoff == 1
RateLimitWindow == 30

\* The errors of a request: a cancelled context, GitHub's rate limit (403
\* or 429), another GitHub failure, a failing webhook.
ErrCtx == "context canceled"
ErrForbidden == "github api error [403]"
ErrTooMany == "github api error [429]"
ErrServer == "github api error [500]"
ErrRequest == "github api error: failed to make request"
ErrWebhook == "notification error"

\* GitHubAPIError.IsRateLimited
IsRateLimited(err) == err \in {ErrForbidden, ErrTooMany}

GitHubOps == {"GetStargazersWithRetry", "GetRateLimitWithRetry"}
NotifierOps == {"NotifyNewStars", "TestConnection"}

\* The pages GitHub serves for a repository: the last one has no next link.
Paginations ==
    {<< <<>> >>, << <<SgA, SgB>> >>, << <<SgA>>, <<SgB>> >>,
     << <<SgA>>, <<SgB>>, <<SgC>> >>}

\* What a request can come back with while the context is live.
Outcomes(op) ==
    IF op \in GitHubOps THEN {NoErr, ErrForbidden, ErrTooMany, ErrServer}
    ELSE {NoErr, ErrWebhook}

\* What a request comes back with once the context is cancelled.
CancelledRequest(op) == IF op \in GitHubOps THEN ErrRequest ELSE ErrWebhook

\* No decorated call yet.
RcIdle ==
    [pc |-> "idle", op |-> "", arg |-> <<>>, pages |-> <<>>, i |-> 0,
     left |-> 0, lastErr |-> NoErr, page |-> 0, all |-> <<>>,
     ret |-> NoErr, out |-> <<>>, attempts |-> <<>>, slept |-> 0,
     waits |-> <<>>, cancelledAt |-> <<>>]

\* NewRateLimiter: lastNotification is the zero time, a window or more ago.
\* since is the time since lastNotification, counted up to the window.
NewLimiter == [since |-> RateLimitWindow]

\* Nothing was sent: sinceDeliver is the time since the last NotifyNewStars
\* request, counted up to the window; gaps are the values it had when the
\* requests of the current call were made, probes the number of its
\* TestConnection requests.
NewTransport == [sinceDeliver |-> RateLimitWindow, gaps |-> <<>>, probes |-> 0]

InitPipeline ==
    /\ rc = RcIdle
    /\ limiter = NewLimiter
    /\ transport = NewTransport
    /\ callCtx = "live"

\* An attempt of the current call: the pages or requests it made, its error.
\* rc.waits are the times the call has slept between its attempts.
AttemptLog(requests, err) == [requests |-> requests, err |-> err]

\* The log with a request added to the attempt under way.
Requested(attempts, n) ==
    [attempts EXCEPT ![Len(attempts)].requests = Append(@, n)]

\* The log with the attempt under way ended.
Ended(attempts, err) == [attempts EXCEPT ![Len(attempts)].err = err]

\* A call of a decorator begins: the loop starts with i = 0.
CallBegin(ops) ==
    /\ rc.pc \in {"idle", "done"}
    /\ \E op \in ops, ctx \in {"live", "done"} :
        /\ callCtx' = ctx
        /\ \E arg \in (IF op = "NotifyNewStars" THEN {<<>>, <<SgA>>} ELSE {<<>>}),
              pages \in (IF op = "GetStargazersWithRetry" THEN Paginations
                         ELSE {<<>>}) :
              rc' = [RcIdle EXCEPT !.pc = "attempt", !.op = op, !.arg = arg,
                                   !.pages = pages,
                                   !.cancelledAt = IF ctx = "done" THEN <<0>>
                                                   ELSE <<>>]
    /\ transport' = [transport EXCEPT !.gaps = <<>>, !.probes = 0]
    /\ UNCHANGED <<limiter, storeVars, svcVars, rlVars>>

\* The decorated call returns.
CallReturn(r, err, out) ==
    [r EXCEPT !.pc = "done", !.ret = err, !.out = out, !.left = 0]

\* GetStargazersWithRetry returns a rate-limited error at once;
\* GetRateLimitWithRetry and the RetryableNotifier make no such test.
NoRetry(op, err) == op = "GetStargazersWithRetry" /\ IsRateLimited(err)

\* A slip: one attempt too few.
LastAttempt_early(i) == i + 1 >= MaxRetries

\* The test i < maxRetries fails: no wait, and the loop ends.
LastAttempt(i) == i >= MaxRetries

\* The body of a retry loop after the attempt: return nil; or keep the
\* error, return it if it is not to be retried, return ctx.Err() if the
\* context is done, wait backoff * (i + 1) unless this was the last attempt.
AttemptEnd(r, err, out) ==
    LET logged == [r EXCEPT !.attempts = Ended(@, err)]
        failed == [logged EXCEPT !.lastErr = err]
    IN  IF err = NoErr THEN CallReturn(logged, NoErr, out)
        ELSE IF NoRetry(r.op, err) THEN CallReturn(failed, err, <<>>)
        ELSE IF callCtx = "done" THEN CallReturn(failed, ErrCtx, <<>>)
        ELSE IF ~LastAttempt(r.i)
        THEN [failed EXCEPT !.pc = "backoff", !.slept = 0,
                            !.left = RetryBackoff * (r.i + 1)]
        ELSE CallReturn(failed, err, <<>>)

\* RateLimiter.Allow: the window has passed since lastNotification.
Allow(since) == since >= RateLimitWindow

\* A slip: lastNotification not set when a notification is let through.
AfterAllow_unrecorded(since) == since

\* rl.lastNotification = now: no time since.
AfterAllow(since) == 0

\* The base notifier's NotifyNewStars: nothing to send, or a request.
BaseNotify(r) ==
    IF r.arg = <<>>
    THEN /\ rc' = AttemptEnd(r, NoErr, <<>>)
         /\ transport' = transport
    ELSE /\ rc' = [r EXCEPT !.pc = "inflight", !.left = 0,
                            !.attempts = Requested(@, 1)]
         /\ transport' = [transport EXCEPT
                !.gaps = Append(@, transport.sinceDeliver),
                !.sinceDeliver = 0]

\* A slip: an attempt resuming at the page the one before failed on.
FirstPage_resume(r) == IF r.page > 0 THEN r.page ELSE 1

\* GetStargazers: page := 1
FirstPage(r) == 1

\* The notifier the calls of the pipeline are made on, as the factory made it.
Notifier == CreateNotifierWithConfig(ProviderDiscord).notifier[1]

\* An attempt begins: the decorator calls what it wraps.
AttemptBegin ==
    /\ rc.pc = "attempt"
    /\ LET r == [rc EXCEPT !.attempts = Append(@, AttemptLog(<<>>, "pending")),
                           !.page = 0, !.all = <<>>]
       IN  CASE rc.op = "NotifyNewStars" ->
                  IF ~PassesRateLimiter(Notifier)
                  THEN /\ limiter' = limiter
                       /\ BaseNotify(r)
                  ELSE IF Allow(limiter.since)
                  THEN /\ limiter' = [limiter EXCEPT !.since = AfterAllow(@)]
                       /\ BaseNotify(r)
                  ELSE /\ rc' = [r EXCEPT !.pc = "ratewait",
                                   !.left = RateLimitWindow - limiter.since]
                       /\ UNCHANGED <<limiter, transport>>
             [] rc.op = "TestConnection" ->
                  /\ rc' = [r EXCEPT !.pc = "inflight",
                                     !.attempts = Requested(@, 1)]
                  /\ transport' = [transport EXCEPT !.probes = @ + 1]
                  /\ UNCHANGED limiter
             [] rc.op = "GetStargazersWithRetry" ->
                  /\ rc' = [r EXCEPT !.pc = "inflight", !.page = FirstPage(rc),
                                     !.attempts = Requested(@, FirstPage(rc))]
                  /\ UNCHANGED <<limiter, transport>>
             [] rc.op = "GetRateLimitWithRetry" ->
                  /\ rc' = [r EXCEPT !.pc = "inflight",
                                     !.attempts = Requested(@, 1)]
                  /\ UNCHANGED <<limiter, transport>>
    /\ UNCHANGED <<callCtx, storeVars, svcVars, rlVars>>

\* RateLimiter.Wait: the window has passed, lastNotification = time.Now().
RateWaitElapsed ==
    /\ rc.pc = "ratewait"
    /\ rc.left = 0
    /\ callCtx = "live"
    /\ limiter' = [limiter EXCEPT !.since = 0]
    /\ BaseNotify(rc)
    /\ UNCHANGED <<callCtx, storeVars, svcVars, rlVars>>

\* A slip: lastNotification set by a wait that was cancelled.
WaitAborted_recorded(since) == 0

\* RateLimiter.Wait returns ctx.Err(): lastNotification is as it was.
WaitAborted(since) == since

\* RateLimiter.Wait takes the case <-ctx.Done(): the attempt has failed.
RateWaitCancelled ==
    /\ rc.pc = "ratewait"
    /\ callCtx = "done"
    /\ rc' = AttemptEnd(rc, ErrCtx, <<>>)
    /\ limiter' = [limiter EXCEPT !.since = WaitAborted(@)]
    /\ UNCHANGED <<transport, callCtx, storeVars, svcVars, rlVars>>

\* The request under way comes back. A page of stargazers with a next link
\* is added and the next page is up; the last page ends the attempt.
Response ==
    /\ rc.pc = "inflight"
    /\ \E err \in (IF callCtx = "done" THEN {CancelledRequest(rc.op)}
                   ELSE Outcomes(rc.op)) :
          IF err # NoErr THEN rc' = AttemptEnd(rc, err, <<>>)
          ELSE IF rc.op = "GetStargazersWithRetry"
          THEN LET all == rc.all \o rc.pages[rc.page] IN
               IF rc.page = Len(rc.pages)
               THEN rc' = AttemptEnd(rc, NoErr, all)
               ELSE rc' = [rc EXCEPT !.pc = "nextpage", !.all = all]
          ELSE rc' = AttemptEnd(rc, NoErr, <<>>)
    /\ UNCHANGED <<limiter, transport, callCtx, storeVars, svcVars, rlVars>>

\* GetStargazers after a page with a next link: it returns ctx.Err() if the
\* context is done and requests the next page otherwise.
NextPage ==
    /\ rc.pc = "nextpage"
    /\ rc' = IF callCtx = "done" THEN AttemptEnd(rc, ErrCtx, <<>>)
             ELSE [rc EXCEPT !.pc = "inflight", !.page = @ + 1,
                             !.attempts = Requested(@, rc.page + 1)]
    /\ UNCHANGED <<limiter, transport, callCtx, storeVars, svcVars, rlVars>>

\* A slip: a plain sleep for the backoff.
BackoffInterrupted_sleep(ctx) == FALSE

\* The select of the backoff takes the case <-ctx.Done().
BackoffInterrupted(ctx) == ctx = "done"

\* The backoff has passed: the next attempt.
BackoffElapsed ==
    /\ rc.pc = "backoff"
    /\ rc.left = 0
    /\ ~BackoffInterrupted(callCtx)
    /\ rc' = [rc EXCEPT !.pc = "attempt", !.i = @ + 1, !.slept = 0,
                         !.waits = Append(@, rc.slept)]
    /\ UNCHANGED <<limiter, transport, callCtx, storeVars, svcVars, rlVars>>

\* The context is cancelled during the backoff: the call returns ctx.Err().
BackoffCancelled ==
    /\ rc.pc = "backoff"
    /\ BackoffInterrupted(callCtx)
    /\ rc' = CallReturn(rc, ErrCtx, <<>>)
    /\ UNCHANGED <<limiter, transport, callCtx, storeVars, svcVars, rlVars>>

\* The context of the call is cancelled while the call is under way.
CtxCancel ==
    /\ callCtx = "live"
    /\ rc.pc \in {"inflight", "nextpage", "ratewait", "backoff"}
    /\ callCtx' = "done"
    /\ rc' = [rc EXCEPT !.cancelledAt = <<Len(rc.attempts)>>]
    /\ UNCHANGED <<limiter, transport, storeVars, svcVars, rlVars>>

\* A tick of time passes: a wait that is over or cancelled has ended, and
\* an attempt that is due has begun.
ClockTick ==
    /\ rc.pc # "attempt"
    /\ rc.pc = "ratewait" => rc.left > 0 /\ callCtx = "live"
    /\ rc.pc = "backoff" => rc.left > 0 /\ ~BackoffInterrupted(callCtx)
    /\ rc' = [rc EXCEPT !.left = IF @ > 0 THEN @ - 1 ELSE 0,
                         !.slept = IF rc.pc = "backoff" THEN @ + 1 ELSE @]
    /\ limiter' = [limiter EXCEPT
           !.since = IF @ < RateLimitWindow THEN @ + 1 ELSE @]
    /\ transport' = [transport EXCEPT
           !.sinceDeliver = IF @ < RateLimitWindow THEN @ + 1 ELSE @]
    /\ UNCHANGED <<callCtx, storeVars, svcVars, rlVars>>

(***************************************************************************)
(* Service.Start up to its loop                                            *)
(***************************************************************************)
\* Start is called: s.running is false and Start has not returned. loop.ret
\* holds what Start has returned, if it has.
Starting(c) == [NewLoop(c) EXCEPT !.running = FALSE]

\* Start returns a ServiceError of the component. The deferred calls stop
\* nothing that Start set running.
StartFailed(component) ==
    /\ svc' = [svc EXCEPT !.pc = "failed"]
    /\ loop' = [loop EXCEPT !.ret = <<component>>]

\* The reloader's Start, storage.Initialize and startMetricsServer: the error
\* of any of them is returned, and the probes are next otherwise.
StartServices ==
    /\ svc.pc = "start"
    /\ \E addFails \in BOOLEAN, err \in {NoErr, "storage", "metrics"} :
          LET started == ReloaderStart(watch, addFails) IN
          /\ watch' = started.w
          /\ IF started.err # NoErr THEN StartFailed("config-reloader")
             ELSE IF err # NoErr THEN StartFailed(err)
             ELSE /\ svc' = [svc EXCEPT !.pc = "probe", !.ns = notifiers,
                                        !.nidx = 1]
                  /\ loop' = loop
    /\ UNCHANGED <<notifiers, cancelled, calls, checked, storeVars, config,
                   callbacks, configFile, timer, rl, invoked, pipeVars>>

\* A slip: the failure of a probe logged and passed over.
ProbeFatal_logged(err) == FALSE

\* if err := notifier.TestConnection(serviceCtx); err != nil
ProbeFatal(err) == err # NoErr

\* One turn of the loop over s.notifiers in Start: TestConnection of the
\* provider; its failure is returned by Start.
StartProbe ==
    /\ svc.pc = "probe"
    /\ svc.nidx <= Len(svc.ns)
    /\ \E err \in (IF cancelled THEN {"notification"} ELSE {NoErr, "notification"}) :
          /\ calls' = Append(calls,
                Call("TestConnection", svc.ns[svc.nidx], "", "", <<>>, <<>>, err,
                     IF err # NoErr THEN "connection_test_failed"
                     ELSE "connection_test_success"))
          /\ IF ProbeFatal(err) THEN StartFailed("notification")
             ELSE /\ svc' = [svc EXCEPT !.nidx = @ + 1]
                  /\ loop' = loop
    /\ UNCHANGED <<notifiers, cancelled, checked, storeVars, rlVars, pipeVars>>

\* The probes are over: checkRateLimits, whose error is only logged,
\* s.running = true, and the loop of Start begins with a new ticker.
StartLoop ==
    /\ svc.pc = "probe"
    /\ svc.nidx > Len(svc.ns)
    /\ svc' = SvcIdle
    /\ loop' = [loop EXCEPT !.running = TRUE,
                             !.currentInterval = GetCheckInterval(config),
                             !.period = GetCheckInterval(config)]
    /\ UNCHANGED <<notifiers, cancelled, calls, checked, storeVars, rlVars, pipeVars>>

\* Service.Stop: nothing when s.running is false; otherwise the context of
\* the service is cancelled, tickerUpdate closed and the Reloader stopped.
\* loop.stopped: a call of Stop has returned.
ServiceStop ==
    /\ IF ~loop.running
       THEN /\ loop' = [loop EXCEPT !.stopped = TRUE]
            /\ UNCHANGED <<cancelled, watch>>
       ELSE /\ loop' = [loop EXCEPT !.running = FALSE, !.stopped = TRUE,
                                    !.tickerUpdate = "closed"]
            /\ cancelled' = TRUE
            /\ watch' = ReloaderStop(watch)
    /\ UNCHANGED <<notifiers, svc, calls, checked, storeVars, config, callbacks,
                   configFile, timer, rl, invoked, pipeVars>>

(***************************************************************************)
(* Specifications                                                          *)
(***************************************************************************)
InitFiles ==
    /\ files = [n \in FileNames |-> <<>>]
    /\ mutex = ""
    /\ st = [t \in Threads |-> Idle(NoRet)]
    /\ history = [r \in Repos |-> <<>>]

InitService ==
    /\ cancelled = FALSE
    /\ svc = SvcIdle
    /\ calls = <<>>
    /\ checked = <<>>

\* NewReloader has loaded the given file; nothing is registered or pending.
\* The loop of Start, when run, runs under that configuration.
InitReloader(file) ==
    /\ configFile = file
    /\ config = LoadConfig(file).cfg[1]
    /\ callbacks = <<>>
    /\ timer = FALSE
    /\ watch = NewWatch
    /\ rl = RlIdle
    /\ invoked = <<>>
    /\ loop = NewLoop(config)

InitStore ==
    /\ InitFiles
    /\ InitPipeline
    /\ InitService
    /\ notifiers = <<>>
    /\ InitReloader(YamlFile(BaseDoc))

\* The entity the StateStore alone is exercised on.
StoreRepos == {Repo1}

SaveStep(t) ==
    \/ SaveOpenTemp(t)
    \/ SaveWriteTemp(t)
    \/ SaveRename(t)

\* The StateStore called by one thread, no process stop.
NextStore ==
    \/ \E r \in StoreRepos : LoadCall("t1", r)
    \/ \E r \in StoreRepos : GetNewStargazersCall("t1", r, StargazerLists)
    \/ \E r \in StoreRepos : SaveBegin("t1", r, SnapshotLists)
    \/ SaveStep("t1")

SpecStore == InitStore /\ [][NextStore]_vars

\* A data directory left by an earlier run or by another hand: the snapshot of
\* the entity is missing, whole, or holds bytes that do not parse.
InitDataDir ==
    /\ \E f \in {<<>>, <<Truncated>>}
              \cup {<<Intact(Marshal([EmptyRepoData(Repo1.owner, Repo1.repo)
                                        EXCEPT !.stargazers = l]))>> :
                        l \in {<<>>, <<SgA, SgB>>}} :
          files = [n \in FileNames |->
                     IF n = getFilename(Repo1.owner, Repo1.repo) THEN f ELSE <<>>]
    /\ mutex = ""
    /\ st = [t \in Threads |-> Idle(NoRet)]
    /\ history = [r \in Repos |-> <<>>]
    /\ InitPipeline
    /\ InitService
    /\ notifiers = <<>>
    /\ InitReloader(YamlFile(BaseDoc))

SpecDataDir == InitDataDir /\ [][NextStore]_vars

\* A Reloader as NewReloader returns it, one callback registered, and its
\* caller: Start and Stop in any order, the file written, the watch loop.
InitLife ==
    /\ InitFiles
    /\ InitPipeline
    /\ InitService
    /\ notifiers = <<>>
    /\ config = LoadConfig(YamlFile(BaseDoc)).cfg[1]
    /\ callbacks = <<1>>
    /\ configFile = YamlFile(BaseDoc)
    /\ timer = FALSE
    /\ watch = Created
    /\ rl = RlIdle
    /\ invoked = <<>>
    /\ loop = NewLoop(config)

LifeFiles == {YamlFile(BaseDoc), YamlFile([BaseDoc EXCEPT !.log_level = "debug"])}

NextLife ==
    \/ StartReloader
    \/ StopReloader
    \/ WatchLoopExit
    \/ Cancel
    \/ ConfigFileEventFrom(LifeFiles)
    \/ EventReceived
    \/ TimePasses
    \/ DebounceFire
    \/ RunCallback
    \/ Swap

SpecLife == InitLife /\ [][NextLife]_vars

\* The files detectChanges is exercised on: each tracked facet changed alone,
\* the entity list reordered, an untracked facet changed, several at once.
ChangeDocs ==
    {BaseDoc,
     [BaseDoc EXCEPT !.repositories = <<Repo1, Repo2>>],
     [BaseDoc EXCEPT !.repositories = <<Repo2, Repo1>>],
     [BaseDoc EXCEPT !.check_interval_minutes = 5],
     [BaseDoc EXCEPT !.github_token = "token-2"],
     [BaseDoc EXCEPT !.github_timeout = 10],
     [BaseDoc EXCEPT !.slack = SlackConfig("https://slack/hook", "#other", TRUE)],
     [BaseDoc EXCEPT !.discord = DiscordConfig("https://discord/hook", FALSE)],
     [BaseDoc EXCEPT !.log_level = "debug"],
     [BaseDoc EXCEPT !.log_format = "json"],
     [BaseDoc EXCEPT !.check_interval_minutes = 0, !.github_timeout = 0,
                     !.log_level = "", !.log_format = ""],
     [BaseDoc EXCEPT !.repositories = <<Repo2, Repo1>>,
                     !.check_interval_minutes = 5, !.log_level = "warn"]}

ChangeFiles == {YamlFile(doc) : doc \in ChangeDocs}

\* The Reloader over one of these files, one callback registered.
InitChanges ==
    /\ InitFiles
    /\ InitPipeline
    /\ InitService
    /\ notifiers = <<>>
    /\ \E file \in ChangeFiles :
          /\ configFile = file
          /\ config = LoadConfig(file).cfg[1]
    /\ callbacks = <<1>>
    /\ timer = FALSE
    /\ watch = NewWatch
    /\ rl = RlIdle
    /\ invoked = <<>>
    /\ loop = NewLoop(config)

NextChanges ==
    \/ ConfigFileWritten(ChangeFiles)
    \/ ReloadBegin
    \/ RunCallback
    \/ Swap

SpecChanges == InitChanges /\ [][NextChanges]_vars

\* Two threads call Load and Save on the same entity.
NextConcurrent ==
    \/ \E t \in Threads, r \in StoreRepos : LoadCall(t, r)
    \/ \E t \in Threads, r \in StoreRepos : SaveBegin(t, r, SnapshotLists)
    \/ \E t \in Threads : SaveStep(t)

SpecConcurrent == InitStore /\ [][NextConcurrent]_vars

\* The StateStore called on two entities with an underscore in their names.
UnderscoreRepos == {Repo3, Repo4}

\* The lists fetched for them.
UnderscoreLists == {<<SgA>>, <<SgA, SgB>>}

NextEntities ==
    \/ \E r \in UnderscoreRepos : LoadCall("t1", r)
    \/ \E r \in UnderscoreRepos : GetNewStargazersCall("t1", r, UnderscoreLists)
    \/ \E r \in UnderscoreRepos : SaveBegin("t1", r, UnderscoreLists)
    \/ SaveStep("t1")

SpecEntities == InitStore /\ [][NextEntities]_vars

\* The check loop with Discord as its notifier, over two entities of plain
\* names or over the two with an underscore, and the record of deliveries.
InitDedup ==
    /\ InitFiles
    /\ InitPipeline
    /\ InitService
    /\ notifiers = <<ProviderDiscord>>
    /\ \E repositories \in {<<Repo1, Repo2>>, <<Repo3, Repo4>>} :
        InitReloader(YamlFile(BaseConfig(repositories)))

NextDedup ==
    \/ Tick
    \/ FetchTracked(UnderscoreLists)
    \/ DiffTracked
    \/ Notify
    \/ SaveTracked
    \/ CycleEnd

SpecDedup == InitDedup /\ [][NextDedup]_vars

\* Load and Save called by one thread of a process that can stop at any point.
NextCrash ==
    \/ \E r \in StoreRepos : LoadCall("t1", r)
    \/ \E r \in StoreRepos : SaveBegin("t1", r, SnapshotLists)
    \/ SaveStep("t1")
    \/ Crash

SpecCrash == InitStore /\ [][NextCrash]_vars

\* The running service: the check loop over an empty data directory.
InitSvc ==
    /\ InitFiles
    /\ InitPipeline
    /\ InitService
    /\ notifiers \in NotifierLists
    /\ \E repositories \in RepositoryLists :
        InitReloader(YamlFile(BaseConfig(repositories)))

NextSvc ==
    \/ Tick
    \/ Fetch
    \/ Diff
    \/ Notify
    \/ SaveSnapshot
    \/ CycleEnd
    \/ Cancel
    \/ LoopExit

SpecSvc == InitSvc /\ [][NextSvc]_vars

\* The Reloader started on a file NewReloader could load.
InitReload ==
    /\ InitFiles
    /\ InitPipeline
    /\ InitService
    /\ notifiers = <<>>
    /\ \E file \in ConfigFiles :
        /\ LoadConfig(file).err = NoErr
        /\ InitReloader(file)

NextReload ==
    \/ AddCallback
    \/ WriteConfigFile
    \/ ReloadBegin
    \/ RunCallback
    \/ Swap

SpecReload == InitReload /\ [][NextReload]_vars

\* The files of a reload that is to be adopted: another token, another
\* repository list, only another log format, no token, not YAML.
AdoptFiles ==
    {YamlFile(BaseDoc),
     YamlFile([BaseDoc EXCEPT !.github_token = "token-2"]),
     YamlFile([BaseDoc EXCEPT !.repositories = <<Repo1, Repo2>>]),
     YamlFile([BaseDoc EXCEPT !.log_format = "json"]),
     YamlFile([BaseDoc EXCEPT !.github_token = ""]),
     GarbageFile}

InitAdopt ==
    /\ InitFiles
    /\ InitPipeline
    /\ InitService
    /\ notifiers = <<>>
    /\ InitReloader(YamlFile(BaseDoc))

NextAdopt ==
    \/ AddCallback
    \/ ConfigFileWritten(AdoptFiles)
    \/ ReloadBegin
    \/ RunCallback
    \/ Swap

\* watchLoop and handleConfigChange run when they can: the fired timer is
\* received, a callback that was called returns, the swap is made.
SpecAdopt ==
    /\ InitAdopt
    /\ [][NextAdopt]_vars
    /\ WF_vars(ReloadBegin)
    /\ WF_vars(RunCallback)
    /\ WF_vars(Swap)

\* The files written over the configuration while the loop runs.
CadenceFiles ==
    {YamlFile(BaseDoc),
     YamlFile([BaseDoc EXCEPT !.check_interval_minutes = 5]),
     YamlFile([BaseDoc EXCEPT !.check_interval_minutes = 5,
                              !.github_token = "token-2"]),
     YamlFile([BaseDoc EXCEPT !.slack = SlackConfig("", "", FALSE)]),
     GarbageFile}

\* The service in the loop of Start, its callback registered, its notifiers
\* built from the configuration NewReloader and New loaded.
InitCadence ==
    /\ InitFiles
    /\ InitPipeline
    /\ cancelled = FALSE
    /\ svc = SvcIdle
    /\ calls = <<>>
    /\ checked = <<>>
    /\ configFile = YamlFile(BaseDoc)
    /\ config = LoadConfig(configFile).cfg[1]
    /\ callbacks = <<1>>
    /\ timer = FALSE
    /\ watch = NewWatch
    /\ rl = RlIdle
    /\ invoked = <<>>
    /\ loop = NewLoop(config)
    /\ notifiers = CreateNotifiers(config)

NextCadence ==
    \/ ConfigFileWritten(CadenceFiles)
    \/ ReloadBegin
    \/ HandleConfigReload
    \/ Swap
    \/ Tick
    \/ FetchFrom({<<SgA, SgB>>})
    \/ Diff
    \/ Notify
    \/ SaveSnapshot
    \/ CycleEnd
    \/ TickerUpdate

SpecCadence == InitCadence /\ [][NextCadence]_vars

\* The running service, its callback registered, the file rewritten with
\* another interval or another token, and Stop.
StopFiles ==
    {YamlFile(BaseDoc),
     YamlFile([BaseDoc EXCEPT !.check_interval_minutes = 5]),
     YamlFile([BaseDoc EXCEPT !.github_token = "token-2"])}

NextStopReload ==
    \/ ConfigFileWritten(StopFiles)
    \/ ReloadBegin
    \/ HandleConfigReload
    \/ Swap
    \/ Tick
    \/ FetchFrom({<<SgA, SgB>>})
    \/ Diff
    \/ Notify
    \/ SaveSnapshot
    \/ CycleEnd
    \/ TickerUpdate
    \/ ServiceStop
    \/ LoopExit
    \/ WatchLoopExit

SpecStopReload == InitCadence /\ [][NextStopReload]_vars

\* watchLoop in time: one callback is registered.
InitDebounce ==
    /\ InitFiles
    /\ InitPipeline
    /\ InitService
    /\ notifiers = <<>>
    /\ InitReloader(YamlFile(BaseDoc))

NextDebounce ==
    \/ AddCallback
    \/ ConfigFileEvent
    \/ EventReceived
    \/ TimePasses
    \/ DebounceFire
    \/ RunCallback
    \/ Swap

SpecDebounce == InitDebounce /\ [][NextDebounce]_vars

\* The idle service, for the calls of the decorators.
InitCalls ==
    /\ InitFiles
    /\ InitPipeline
    /\ InitService
    /\ notifiers = <<>>
    /\ InitReloader(YamlFile(BaseDoc))

\* Calls of the RetryableClient and of one provider's pipeline, one at a
\* time, and time.
NextCalls ==
    \/ CallBegin(GitHubOps \cup NotifierOps)
    \/ AttemptBegin
    \/ RateWaitElapsed
    \/ RateWaitCancelled
    \/ Response
    \/ NextPage
    \/ BackoffElapsed
    \/ BackoffCancelled
    \/ CtxCancel
    \/ ClockTick

SpecCalls == InitCalls /\ [][NextCalls]_vars

\* service.New has built the Service from a configuration; Start is called.
InitStart ==
    /\ InitFiles
    /\ InitPipeline
    /\ cancelled = FALSE
    /\ calls = <<>>
    /\ checked = <<>>
    /\ svc = [SvcIdle EXCEPT !.pc = "start"]
    /\ \E repositories \in RepositoryLists, discord, slack \in BOOLEAN :
          /\ configFile = YamlFile([BaseConfig(repositories) EXCEPT
                                      !.discord.enabled = discord,
                                      !.slack.enabled = slack])
          /\ config = LoadConfig(configFile).cfg[1]
    /\ callbacks = <<>>
    /\ timer = FALSE
    /\ watch = Created
    /\ rl = RlIdle
    /\ invoked = <<>>
    /\ notifiers = CreateNotifiers(config)
    /\ loop = Starting(config)

\* Start, the check cycles of its loop and the cancellation of its context.
NextStart ==
    \/ StartServices
    \/ StartProbe
    \/ StartLoop
    \/ Tick
    \/ FetchFrom({<<SgA, SgB>>})
    \/ Diff
    \/ Notify
    \/ SaveSnapshot
    \/ CycleEnd
    \/ Cancel
    \/ LoopExit

SpecStart == InitStart /\ [][NextStart]_vars

\* The other file the configuration file is rewritten with during a run.
ShutdownFiles == {YamlFile([BaseConfig(<<Repo1>>) EXCEPT !.github_token = "token-2"])}

\* service.New on one repository with one callback registered; Start is
\* called.
InitShutdown ==
    /\ InitFiles
    /\ InitPipeline
    /\ cancelled = FALSE
    /\ calls = <<>>
    /\ checked = <<>>
    /\ svc = [SvcIdle EXCEPT !.pc = "start"]
    /\ \E discord \in BOOLEAN :
          /\ configFile = YamlFile([BaseConfig(<<Repo1>>) EXCEPT
                                      !.discord.enabled = discord,
                                      !.slack.enabled = FALSE])
          /\ config = LoadConfig(configFile).cfg[1]
    /\ callbacks = <<1>>
    /\ timer = FALSE
    /\ watch = Created
    /\ rl = RlIdle
    /\ invoked = <<>>
    /\ notifiers = CreateNotifiers(config)
    /\ loop = Starting(config)

\* Start and its loop, a reload, the cancellation of the context and Stop.
NextShutdown ==
    \/ StartServices
    \/ StartProbe
    \/ StartLoop
    \/ Tick
    \/ FetchFrom({<<SgA, SgB>>})
    \/ Diff
    \/ Notify
    \/ SaveSnapshot
    \/ CycleEnd
    \/ ConfigFileWritten(ShutdownFiles)
    \/ ReloadBegin
    \/ RunCallback
    \/ Swap
    \/ Cancel
    \/ ServiceStop
    \/ LoopExit
    \/ WatchLoopExit

SpecShutdown == InitShutdown /\ [][NextShutdown]_vars

(***************************************************************************)
(* Properties of the StateStore                                            *)
(***************************************************************************)
Last(s) == s[Len(s)]

\* The list of the last successful Save of an entity, <<>> when there is none.
LastSaved(r) == IF history[r] = <<>> THEN <<>> ELSE Last(history[r])

\* The snapshot file of an entity and the document in it.
SnapshotFile(fs, r) == fs[getFilename(r.owner, r.repo)]
SnapshotDoc(fs, r) == SnapshotFile(fs, r)[1].doc[1]

\* This step is thread t returning from GetNewStargazers on entity r.
DiffReturned(t, r) ==
    /\ st'[t] # st[t]
    /\ st'[t].ret.op = "GetNewStargazers"
    /\ st'[t].ret.owner = r.owner
    /\ st'[t].ret.repo = r.repo

\* This step is thread t returning from a successful Save on entity r.
SaveSucceeded(t, r) ==
    /\ st[t].pc = "rename"
    /\ st[t].owner = r.owner
    /\ st[t].repo = r.repo
    /\ st'[t].ret.op = "Save"
    /\ st'[t].ret.err = NoErr

\* C1. Stable-identity diffing: when the stored current list of an entity is
\* non-empty, a successful GetNewStargazers returns exactly the observed
\* members whose ID is not the ID of a stored member, in observed order,
\* whatever their login and timestamp.
StableIdentityDiffing ==
    [][\A t \in Threads, r \in Repos :
          (DiffReturned(t, r) /\ st'[t].ret.err = NoErr /\ LastSaved(r) # <<>>)
            => LET known == IDsOf(LastSaved(r))
                   observed == st'[t].ret.arg
               IN  st'[t].ret.out = SelectSeq(observed, LAMBDA m : m.id \notin known)
      ]_vars

\* Stored {A,B}: observed {A,B,C} has given {C}.
StableIdentityDiffingWitness ==
    /\ LastSaved(Repo1) = <<SgA, SgB>>
    /\ st["t1"].ret.op = "GetNewStargazers"
    /\ st["t1"].ret.arg = <<SgA, SgB, SgC>>
    /\ st["t1"].ret.out = <<SgC>>

\* C2. First-sight rule: for an entity no Save has succeeded for, a successful
\* GetNewStargazers returns the whole observed list, and the first successful
\* Save leaves a snapshot whose current list is the saved list and which has
\* no previous_data.
FirstSightRule ==
    [][\A t \in Threads, r \in Repos :
          /\ (DiffReturned(t, r) /\ st'[t].ret.err = NoErr /\ history[r] = <<>>)
                => st'[t].ret.out = st'[t].ret.arg
          /\ (SaveSucceeded(t, r) /\ history[r] = <<>>)
                => /\ SnapshotFile(files', r) # <<>>
                   /\ SnapshotFile(files', r)[1].intact
                   /\ SnapshotDoc(files', r).stargazers = st[t].stargazers
                   /\ "previous_data" \notin DOMAIN SnapshotDoc(files', r)
      ]_vars

\* The first Save of an entity, of a non-empty list, has succeeded.
FirstSightRuleWitness ==
    /\ st["t1"].ret.op = "Save"
    /\ st["t1"].ret.err = NoErr
    /\ history[Repo1] = <<<<SgA, SgB>>>>
    /\ SnapshotFile(files, Repo1) # <<>>

\* C3. Atomic save durability: wherever the process stops, before, during or
\* after a Save, Load of the entity succeeds and returns the snapshot of the
\* last Save that completed its rename (the empty snapshot when there is
\* none), with the prior list that Save recorded; it never sees a partly
\* written file.
AtomicSaveDurability ==
    \A r \in StoreRepos :
        LET res == Load(files, FALSE, r.owner, r.repo, "ok") IN
        /\ res.err = NoErr
        /\ res.data[1].stargazers = LastSaved(r)
        /\ IF Len(history[r]) = 2 /\ history[r][1] # <<>>
           THEN /\ res.data[1].previous_data # <<>>
                /\ res.data[1].previous_data[1].stargazers = history[r][1]
           ELSE res.data[1].previous_data = <<>>

\* The process stopped after the temporary file was written in full and
\* before the rename, over an earlier snapshot with another list.
AtomicSaveDurabilityWitness ==
    /\ st["t1"].ret.op = "Crash:rename"
    /\ LastSaved(Repo1) = <<SgA, SgB>>
    /\ st["t1"].ret.arg = <<SgA, SgB, SgC>>
    /\ files[TempName(getFilename(Repo1.owner, Repo1.repo))] # <<>>
    /\ files[TempName(getFilename(Repo1.owner, Repo1.repo))][1].intact

\* C4. One-level history: a snapshot file never holds a previous_data that
\* has a previous_data of its own, and after two successive successful Saves
\* S1 (non-empty) then S2 the current list is S2 and the prior list is S1.
OneLevelHistory ==
    \A r \in Repos :
        (SnapshotFile(files, r) # <<>> /\ SnapshotFile(files, r)[1].intact)
          => LET doc == SnapshotDoc(files, r) IN
             /\ "previous_data" \in DOMAIN doc
                   => "previous_data" \notin DOMAIN doc.previous_data
             /\ (Len(history[r]) = 2 /\ history[r][1] # <<>>)
                   => /\ doc.stargazers = history[r][2]
                      /\ "previous_data" \in DOMAIN doc
                      /\ doc.previous_data.stargazers = history[r][1]

\* Two Saves have succeeded one after the other; the snapshot holds both lists.
OneLevelHistoryWitness ==
    /\ history[Repo1] = <<<<SgA, SgB>>, <<SgA, SgB, SgC>>>>
    /\ SnapshotFile(files, Repo1) # <<>>
    /\ SnapshotDoc(files, Repo1).previous_data.last_check = Now
    /\ st["t1"].ret.op = "Save"


(***************************************************************************)
(* Properties of the check cycle                                           *)
(***************************************************************************)
\* checkRepository has returned and calls holds the calls it made.
Returned == svc.pc \in {"fetch", "ratelimit", "idle", "stopped"} /\ calls # <<>>

FetchSucceeded == calls[1].err = NoErr

DiffSucceeded ==
    /\ Len(calls) >= 2
    /\ calls[2].fn = "GetNewStargazers"
    /\ calls[2].err = NoErr

CallsOf(fn) == {i \in DOMAIN calls : calls[i].fn = fn}

\* C5. When the fetch and GetNewStargazers of a check both succeed, the check
\* ends with exactly one call of Save, made with the whole fetched list,
\* whether there are new stargazers or not and whatever the notifiers returned.
SaveUnconditional ==
    (Returned /\ FetchSucceeded /\ DiffSucceeded)
      => /\ Last(calls).fn = "Save"
         /\ Last(calls).arg = calls[1].out
         /\ Last(calls).owner = calls[1].owner
         /\ Last(calls).repo = calls[1].repo
         /\ Cardinality(CallsOf("Save")) = 1

\* Over a stored {A,B} a check fetched {A,B,C}, both notifiers failed, and
\* Save was called with {A,B,C}.
SaveUnconditionalWitness ==
    /\ Returned
    /\ Len(calls) = 5
    /\ calls[1].out = <<SgA, SgB, SgC>>
    /\ calls[2].out = <<SgC>>
    /\ calls[3].err # NoErr
    /\ calls[4].err # NoErr
    /\ calls[5].fn = "Save"
    /\ calls[5].err = NoErr

\* C6. When the fetch or GetNewStargazers of a check fails, the check returns
\* at once: that failed call is its last call, so no notifier is called and
\* Save is not called, and no step of the fetch or of the diff changes a file.
FailureSkipsEntity ==
    /\ [](\A i \in DOMAIN calls :
            (calls[i].fn \in {"GetStargazersWithRetry", "GetNewStargazers"}
                /\ calls[i].err # NoErr)
              => /\ i = Len(calls)
                 /\ svc.pc \notin {"diff", "notify", "save"}
                 /\ checked # <<>>
                 /\ Last(checked).err # NoErr)
    /\ [][svc.pc \in {"fetch", "diff"} => (files' = files /\ history' = history)]_vars

\* GetNewStargazers failed on an entity with a stored snapshot, after a
\* fetch that had found a new stargazer.
FailureSkipsEntityWitness ==
    /\ Returned
    /\ Len(calls) = 2
    /\ calls[1].out = <<SgA, SgB, SgC>>
    /\ calls[2].fn = "GetNewStargazers"
    /\ calls[2].err # NoErr
    /\ LastSaved(Repository(calls[2].owner, calls[2].repo)) = <<SgA, SgB>>

\* C7. Provider isolation: when a check finds new stargazers, the calls after
\* the diff are one NotifyNewStars per notifier, in list order, each with the
\* new stargazers, whatever the earlier ones returned; a failure is recorded
\* as notification_failed and the check fails only if Save fails.
ProviderIsolation ==
    (Returned /\ FetchSucceeded /\ DiffSucceeded /\ calls[2].out # <<>>)
      => /\ Len(calls) = 2 + Len(notifiers) + 1
         /\ \A i \in 1..Len(notifiers) :
               /\ calls[2 + i].fn = "NotifyNewStars"
               /\ calls[2 + i].provider = notifiers[i]
               /\ calls[2 + i].arg = calls[2].out
               /\ (calls[2 + i].metric = "notification_failed")
                     <=> (calls[2 + i].err # NoErr)
         /\ (Last(checked).err = NoErr) <=> (Last(calls).err = NoErr)

\* The first of two notifiers failed, the second was called and succeeded,
\* and the check succeeded.
ProviderIsolationWitness ==
    /\ Returned
    /\ Len(calls) = 5
    /\ calls[3].fn = "NotifyNewStars"
    /\ calls[3].err # NoErr
    /\ calls[4].fn = "NotifyNewStars"
    /\ calls[4].provider = ProviderSlack
    /\ calls[4].err = NoErr
    /\ Last(checked).err = NoErr

\* C8. A check cycle calls checkRepository on the repositories of the
\* configuration in list order, once per list position, duplicates included,
\* and goes on to the next position whatever the call returned.
CycleInListOrder ==
    /\ svc.pc \notin {"idle", "stopped"} => svc.repos = config.repositories
    /\ \A i \in DOMAIN checked :
          /\ checked[i].pos = i
          /\ Repository(checked[i].owner, checked[i].repo) = svc.repos[i]
    /\ svc.pc \in {"fetch", "diff", "notify", "save"}
          => (Len(checked) = svc.idx - 1 /\ svc.idx <= Len(svc.repos))
    /\ (svc.pc \in {"ratelimit", "idle", "stopped"} /\ svc.idx > 0)
          => Len(checked) = Len(svc.repos)

\* A cycle over a repository listed twice has ended: the first check failed
\* and the second was made and succeeded.
CycleInListOrderWitness ==
    /\ svc.pc = "idle"
    /\ svc.repos = <<Repo1, Repo1>>
    /\ Len(checked) = 2
    /\ checked[1].err # NoErr
    /\ checked[2].err = NoErr

(***************************************************************************)
(* Properties of the Reloader                                              *)
(***************************************************************************)
\* The invocations of the latest handleConfigChange that returned an error.
FailedInvocations == {k \in DOMAIN invoked : invoked[k].err # NoErr}

\* The callbacks the latest handleConfigChange invoked, in order.
InvokedCallbacks == [k \in DOMAIN invoked |-> invoked[k].callback]

\* C9: Reload atomicity under callback failure. When a registered callback
\* returns an error during a reload, that invocation is the last one of the
\* reload: the callbacks invoked are the registered ones up to and including
\* the failing one, each once and in order, handleConfigChange has returned,
\* and the live snapshot is the pre-reload snapshot. Until handleConfigChange
\* swaps, the live snapshot is the one the callbacks were given as old.
CallbackFailureKeepsSnapshot ==
    /\ \A k \in FailedInvocations :
        /\ k = Len(invoked)
        /\ rl.pc = "idle"
        /\ rl.result = "callback_failed"
        /\ config = rl.oldConfig[1]
        /\ config = invoked[k].oldConfig
    /\ rl.result = "callback_failed" =>
        /\ FailedInvocations # {}
        /\ InvokedCallbacks = SubSeq(rl.callbacks, 1, Len(invoked))
    /\ rl.pc \in {"callbacks", "swap"} => config = rl.oldConfig[1]

\* The first of two registered callbacks has failed in a reload to a
\* different configuration: the second was not invoked, the old one is live.
CallbackFailureKeepsSnapshotWitness ==
    /\ rl.result = "callback_failed"
    /\ Len(rl.callbacks) = 2
    /\ Len(invoked) = 1
    /\ invoked[1].callback = 1
    /\ rl.newConfig[1] # config
    /\ config = BaseDoc

\* The file cannot be read or parsed, or the document in it fails validate
\* or validateConfig.
FailsToLoad(file) ==
    \/ LoadConfig(file).err # NoErr
    \/ validateConfig(LoadConfig(file).cfg[1]) # NoErr

\* C10: A reload of a configuration file that fails to load, to parse or to
\* validate is abandoned: handleConfigChange returns in the step it began,
\* no callback is invoked and the live snapshot stays the old one; after an
\* abandoned reload no invocation is on record.
FailedLoadAbandonsReload ==
    /\ [](rl.result \in {"load_failed", "invalid"} =>
            invoked = <<>> /\ rl.pc = "idle")
    /\ [][(timer /\ rl.pc = "idle" /\ rl' # rl /\ FailsToLoad(configFile)) =>
            /\ rl'.pc = "idle"
            /\ rl'.result \in {"load_failed", "invalid"}
            /\ invoked' = <<>>
            /\ config' = config]_vars

\* A file without the GitHub token was written over a configuration with
\* one while a callback was registered: the reload was abandoned, the
\* callback not invoked, the token still live.
FailedLoadAbandonsReloadWitness ==
    /\ rl.result = "invalid"
    /\ configFile = YamlFile([BaseDoc EXCEPT !.github_token = ""])
    /\ ~timer
    /\ callbacks # <<>>
    /\ invoked = <<>>
    /\ config.github_token = "token-1"

(***************************************************************************)
(* Properties of the loop of Start beside the Reloader                     *)
(***************************************************************************)
\* The latest reload is over, has swapped, and had sent the cadence signal,
\* which the loop has consumed.
CadenceSignalConsumed ==
    /\ rl.pc = "idle"
    /\ rl.result = "reloaded"
    /\ loop.signal = "sent"
    /\ svc.pc # "update"

\* C11: Cadence hot-swap. When the loop consumes the cadence-change signal
\* of a reload, the interval it reads from the live configuration is the new
\* one; once the reload is over and the signal consumed, the ticker runs at
\* the check interval of the live configuration.
CadenceHotSwap ==
    /\ loop.signal = "sent" /\ loop.read # <<>> =>
          loop.read[1] = GetCheckInterval(rl.newConfig[1])
    /\ CadenceSignalConsumed => loop.period = GetCheckInterval(config)

(***************************************************************************)
(* Properties of watchLoop                                                 *)
(***************************************************************************)
\* C12: Debounce collapsing. A burst of change notifications, each received
\* while the timer set by the one before was running, gets no second reload
\* attempt; the attempt is made only when a full debounce window has passed
\* since the last notification; and when the timer of the burst has been
\* consumed exactly one attempt has been made.
DebounceCollapsing ==
    /\ [](watch.attempts <= 1)
    /\ [](watch.burst >= 1 /\ ~timer => watch.attempts = 1)
    /\ [][watch'.attempts > watch.attempts =>
            watch.quiet >= DebounceWindow]_vars

\* Three notifications in a burst, one reload attempt, no timer running.
DebounceCollapsingWitness ==
    /\ watch.burst = 3
    /\ watch.attempts = 1
    /\ ~timer
    /\ watch.pending = 0

(***************************************************************************)
(* Properties of a successful reload                                       *)
(***************************************************************************)
\* The facets of a snapshot a reload compares.
TrackedFacets(c) ==
    <<c.repositories, c.check_interval_minutes, c.github_token,
      c.github_timeout, c.discord, c.slack, c.log_level>>

\* The file loads, is valid, and its snapshot differs from the live one in
\* a tracked facet.
Adoptable(file) ==
    /\ ~FailsToLoad(file)
    /\ TrackedFacets(LoadConfig(file).cfg[1]) # TrackedFacets(config)

\* C13: A changed configuration file that is valid and differs from the
\* live snapshot in a tracked facet is adopted: the reload attempt on it
\* goes on to the callbacks with the loaded snapshot as new and the live one
\* as old; the attempt ends; unless a callback fails, it ends with every
\* registered callback invoked once, in order, with (old, new), and with the
\* new snapshot live.
ValidChangeAdopted ==
    /\ [][(timer /\ rl.pc = "idle" /\ rl' # rl /\ Adoptable(configFile)) =>
            /\ rl'.pc \in {"callbacks", "swap"}
            /\ rl'.oldConfig = <<config>>
            /\ rl'.newConfig = LoadConfig(configFile).cfg
            /\ rl'.callbacks = callbacks]_vars
    /\ [](rl.result = "reloaded" =>
            /\ config = rl.newConfig[1]
            /\ InvokedCallbacks = rl.callbacks
            /\ \A k \in DOMAIN invoked :
                /\ invoked[k].oldConfig = rl.oldConfig[1]
                /\ invoked[k].newConfig = rl.newConfig[1]
                /\ invoked[k].err = NoErr)
    /\ (timer ~> ~timer)
    /\ (rl.pc # "idle" ~> rl.result \in {"reloaded", "callback_failed"})

\* A file with another token and two callbacks registered: both were
\* invoked and the new token is live.
ValidChangeAdoptedWitness ==
    /\ rl.result = "reloaded"
    /\ Len(invoked) = 2
    /\ rl.oldConfig[1] = BaseDoc
    /\ config = [BaseDoc EXCEPT !.github_token = "token-2"]
    /\ configFile = YamlFile(config)

(***************************************************************************)
(* The decorators of the notifiers and of the GitHub client                *)
(***************************************************************************)
\* C14: two consecutive NotifyNewStars requests that reach the transport of
\* a provider are at least the rate-limit window apart, within a call and
\* from one call to the next; every attempt of TestConnection reaches the
\* transport at once, whatever the rate limiter holds.
RateLimitSpacing ==
    /\ \A k \in 1..Len(transport.gaps) : transport.gaps[k] >= RateLimitWindow
    /\ rc.op = "TestConnection" =>
          /\ rc.pc # "ratewait"
          /\ rc.pc # "attempt" => transport.probes = Len(rc.attempts)

\* A call has sent twice, the second time after a wait for the window.
RateLimitSpacingWitness ==
    /\ rc.op = "NotifyNewStars"
    /\ Len(transport.gaps) >= 2
    /\ Len(rc.attempts) >= 2

\* The call under way has returned, its context was never cancelled, and
\* every attempt failed with an error that is not of GitHub's rate limit.
Exhausted ==
    /\ rc.pc = "done"
    /\ rc.cancelledAt = <<>>
    /\ \A k \in 1..Len(rc.attempts) :
          rc.attempts[k].err # NoErr /\ ~IsRateLimited(rc.attempts[k].err)

\* C15: a call of a retry decorator whose every attempt fails, not
\* rate-limited and never cancelled, makes maxRetries + 1 attempts, sleeps
\* backoff * k after the k-th failure and not after the last, and returns
\* the error of the last attempt.
RetryExhaustion ==
    Exhausted =>
      /\ Len(rc.attempts) = MaxRetries + 1
      /\ rc.waits = [k \in 1..MaxRetries |-> RetryBackoff * k]
      /\ rc.slept = 0
      /\ rc.ret = rc.attempts[Len(rc.attempts)].err

\* A call has failed four times and returned.
RetryExhaustionWitness ==
    /\ Exhausted
    /\ rc.i = MaxRetries
    /\ rc.ret # NoErr

\* C16: an attempt of GetStargazersWithRetry or of GetRateLimitWithRetry
\* that fails with a rate-limited error (403 or 429) is the last of its
\* call: the call has returned that error, with no backoff and no further
\* attempt.
RateLimitedNeverRetried ==
    \A k \in 1..Len(rc.attempts) :
        (rc.op \in GitHubOps /\ IsRateLimited(rc.attempts[k].err)) =>
            /\ k = Len(rc.attempts)
            /\ rc.pc = "done"
            /\ rc.ret = rc.attempts[k].err

\* C17: once the context of a call of a retry decorator is cancelled, during
\* an attempt, a wait of the rate limiter or a backoff, the call starts no
\* further attempt, and when it has returned it has returned an error.
CancellationAbortsRetries ==
    (rc.cancelledAt # <<>> /\ rc.cancelledAt[1] >= 1) =>
        /\ Len(rc.attempts) = rc.cancelledAt[1]
        /\ rc.pc = "done" => rc.ret # NoErr

\* A call cancelled in the middle of its second backoff has returned.
CancellationAbortsRetriesWitness ==
    /\ rc.pc = "done"
    /\ rc.cancelledAt = <<2>>
    /\ rc.slept = 1
    /\ rc.ret = ErrCtx

\* The members of all pages, in page order.
RECURSIVE AllPages(_)
AllPages(pages) ==
    IF pages = <<>> THEN <<>> ELSE Head(pages) \o AllPages(Tail(pages))

\* C18: GetStargazersWithRetry returns the members of all pages of one
\* pass in page order, or an error and no members; every attempt requests
\* the pages from the first one on, and the attempt that succeeds requests
\* them all.
CompletePaginationPass ==
    rc.op = "GetStargazersWithRetry" =>
        /\ \A k \in 1..Len(rc.attempts) :
              rc.attempts[k].requests =
                  [j \in 1..Len(rc.attempts[k].requests) |-> j]
        /\ (rc.pc = "done" /\ rc.ret = NoErr) =>
              /\ rc.out = AllPages(rc.pages)
              /\ Len(rc.attempts[Len(rc.attempts)].requests) = Len(rc.pages)
        /\ (rc.pc = "done" /\ rc.ret # NoErr) => rc.out = <<>>

\* Three pages are returned by a second attempt, the first one having
\* failed on the second page.
CompletePaginationPassWitness ==
    /\ rc.op = "GetStargazersWithRetry"
    /\ rc.pc = "done"
    /\ rc.ret = NoErr
    /\ rc.out = <<SgA, SgB, SgC>>
    /\ Len(rc.attempts) = 2
    /\ rc.attempts[1].requests = <<1, 2>>

\* C19: a call of NotifyNewStars with no new stargazers, made on the
\* RetryableNotifier over the RateLimitedNotifier over the base notifier,
\* makes no request on the transport and returns nil.
ZeroMembersNoOp ==
    (rc.op = "NotifyNewStars" /\ rc.arg = <<>>) =>
        /\ transport.gaps = <<>>
        /\ rc.pc = "done" => rc.ret = NoErr

(***************************************************************************)
(* Start                                                                   *)
(***************************************************************************)
IsProbe(call) == call.fn = "TestConnection"

\* The probes Start has made.
Probes == SelectSeq(calls, IsProbe)

\* C20: Start sets the service running only after a successful probe of
\* every notifier, in order; a failed probe makes Start return an error
\* with the service not running, and from then on the service is never
\* running and no check cycle is run.
StartupProbes ==
    /\ [][(~loop.running /\ loop'.running) =>
            /\ [k \in 1..Len(Probes) |-> Probes[k].provider] = notifiers
            /\ \A k \in 1..Len(Probes) : Probes[k].err = NoErr]_vars
    /\ []((\E k \in 1..Len(Probes) : Probes[k].err # NoErr) =>
            /\ svc.pc = "failed"
            /\ loop.ret = <<"notification">>
            /\ ~loop.running)
    /\ [](~loop.running =>
            checked = <<>> /\ svc.pc \in {"start", "probe", "failed"})
    /\ [][svc.pc = "failed" =>
            svc' = svc /\ loop' = loop /\ checked' = checked]_vars

\* The probe of Discord has passed, the one of Slack has failed, and Start
\* has returned.
StartupProbesWitness ==
    /\ Len(Probes) = 2
    /\ Probes[1].err = NoErr
    /\ Probes[2].err # NoErr
    /\ loop.ret = <<"notification">>

(***************************************************************************)
(* Delivery and the end-to-end cycle                                       *)
(***************************************************************************)
\* The check of an entity found new stargazers and has returned.
FoundNew == Returned /\ FetchSucceeded /\ DiffSucceeded /\ calls[2].out # <<>>

\* C21 as claimed: once a check has saved the list with the stargazers that
\* GetNewStargazers reported new, so that they are not reported again, they
\* have been delivered with success to every notifier.
AtLeastOnceDelivery ==
    (FoundNew /\ Last(calls).fn = "Save" /\ Last(calls).err = NoErr) =>
        \A i \in DOMAIN notifiers :
            \E j \in CallsOf("NotifyNewStars") :
                /\ calls[j].provider = notifiers[i]
                /\ calls[j].err = NoErr

\* C21 amended: the stargazers reported new are handed to every notifier
\* once, in the check that reports them, and the fetched list is saved
\* whatever the notifiers returned: a delivery that failed is not made
\* again.
DeliveryAttemptedOnce ==
    FoundNew =>
        /\ \A i \in DOMAIN notifiers :
              Cardinality({j \in CallsOf("NotifyNewStars") :
                              /\ calls[j].provider = notifiers[i]
                              /\ calls[j].arg = calls[2].out}) = 1
        /\ Last(calls).fn = "Save"
        /\ Last(calls).err = NoErr =>
              /\ LastSaved(Repository(calls[1].owner, calls[1].repo)) = calls[1].out
              /\ GetNewStargazers(files, "live", calls[1].owner, calls[1].repo,
                                  calls[1].out, "ok").out = <<>>

\* The delivery to Slack failed after the one to Discord, and the list with
\* the new stargazer was saved.
DeliveryAttemptedOnceWitness ==
    /\ FoundNew
    /\ notifiers = <<ProviderDiscord, ProviderSlack>>
    /\ calls[3].err = NoErr
    /\ calls[4].err # NoErr
    /\ Last(calls).fn = "Save"
    /\ Last(calls).err = NoErr

\* The entity of the check that has returned.
Checked == Repository(calls[1].owner, calls[1].repo)

\* C22: a check of an entity whose stored list is {A,B} and whose fetch
\* returns {A,B,C}, with the store working, finds {C} new, calls
\* NotifyNewStars once on every notifier with {C}, and saves a snapshot with
\* the stargazers {A,B,C} and the previous stargazers {A,B}.
EndToEnd ==
    (/\ Returned
     /\ FetchSucceeded
     /\ calls[1].out = <<SgA, SgB, SgC>>
     /\ DiffSucceeded
     /\ Last(calls).fn = "Save"
     /\ Last(calls).err = NoErr
     /\ Len(history[Checked]) = 2
     /\ history[Checked][1] = <<SgA, SgB>>) =>
        /\ calls[2].out = <<SgC>>
        /\ Len(calls) = 3 + Len(notifiers)
        /\ \A i \in DOMAIN notifiers :
              /\ calls[2 + i].fn = "NotifyNewStars"
              /\ calls[2 + i].provider = notifiers[i]
              /\ calls[2 + i].arg = <<SgC>>
        /\ Last(calls).arg = <<SgA, SgB, SgC>>
        /\ SnapshotFile(files, Checked)[1].intact
        /\ SnapshotDoc(files, Checked).stargazers = <<SgA, SgB, SgC>>
        /\ "previous_data" \in DOMAIN SnapshotDoc(files, Checked)
        /\ SnapshotDoc(files, Checked).previous_data.stargazers = <<SgA, SgB>>
        /\ "previous_data" \notin DOMAIN SnapshotDoc(files, Checked).previous_data

\* The scenario with Discord and Slack, both deliveries made with success.
EndToEndWitness ==
    /\ Returned
    /\ notifiers = <<ProviderDiscord, ProviderSlack>>
    /\ Len(calls) = 5
    /\ calls[1].out = <<SgA, SgB, SgC>>
    /\ calls[2].out = <<SgC>>
    /\ calls[3].err = NoErr
    /\ calls[4].err = NoErr
    /\ Last(calls).err = NoErr
    /\ history[Checked] = << <<SgA, SgB>>, <<SgA, SgB, SgC>> >>

(***************************************************************************)
(* The live configuration                                                  *)
(***************************************************************************)
\* C23: the configuration GetConfig returns, the initial one and every
\* reloaded one, has at least one repository, a check interval of at least
\* one minute and a webhook URL for every enabled provider.
LiveConfigValid ==
    /\ Len(config.repositories) >= 1
    /\ GetCheckInterval(config) >= Minute
    /\ config.discord.enabled => config.discord.webhook_url # ""
    /\ config.slack.enabled => config.slack.webhook_url # ""

(***************************************************************************)
(* Shutdown                                                                *)
(***************************************************************************)
\* The context is cancelled, a call of Stop has returned and no later one
\* can do anything, Start has returned and watchLoop is not running.
ShutDown ==
    /\ cancelled
    /\ loop.stopped
    /\ ~loop.running
    /\ svc.pc \in {"failed", "stopped"}
    /\ watch.goroutine # "running"

\* C24: once the context is cancelled, Stop has been called and the check
\* loop and watchLoop have come to their end, the fsnotify watcher of the
\* Reloader is closed, whatever Start was doing when Stop was called.
ShutdownReleasesWatcher == ShutDown => watch.watcher = "closed"

(***************************************************************************)
(* The StateStore: repeated diffs and unreadable files                     *)
(***************************************************************************)
\* C25: GetNewStargazers changes no file and no snapshot, and a call that
\* follows a call on the same entity with the same observed list, both
\* successful and so with no Save between them, returns what that one
\* returned.
IdempotentReDiff ==
    [][\A t \in Threads, r \in Repos :
          DiffReturned(t, r) =>
            /\ files' = files
            /\ history' = history
            /\ (/\ st[t].ret.op = "GetNewStargazers"
                /\ st[t].ret.owner = r.owner
                /\ st[t].ret.repo = r.repo
                /\ st[t].ret.arg = st'[t].ret.arg
                /\ st[t].ret.err = NoErr
                /\ st'[t].ret.err = NoErr)
                  => st'[t].ret.out = st[t].ret.out
      ]_vars

\* Over a stored {A,B}, the observed {A,B,C} has given {C} and the stored
\* snapshot is what the last Save left.
IdempotentReDiffWitness ==
    /\ st["t1"].ret.op = "GetNewStargazers"
    /\ st["t1"].ret.err = NoErr
    /\ st["t1"].ret.arg = <<SgA, SgB, SgC>>
    /\ st["t1"].ret.out = <<SgC>>
    /\ SnapshotFile(files, Repo1) # <<>>
    /\ SnapshotDoc(files, Repo1).stargazers = <<SgA, SgB>>

\* The snapshot file of the entity is there and cannot be parsed.
Unparseable(fs, r) ==
    SnapshotFile(fs, r) # <<>> /\ ~SnapshotFile(fs, r)[1].intact

\* This step is a call of thread t1 that began in this step.
CallMade == st["t1"].pc = "idle" /\ st'["t1"] # st["t1"]

\* C26: Load of an entity that has no snapshot file returns a snapshot with no
\* stargazers and no error; when the file is there and cannot be read or
\* parsed, Load, GetNewStargazers and Save return an error: none of them takes
\* the file for an empty snapshot, and Save does not go on to write.
MissingIsEmptyBrokenIsError ==
    /\ [](\A r \in StoreRepos :
            /\ ~Exists(files, getFilename(r.owner, r.repo)) =>
                 \A io \in {"ok", "read_err"} :
                    LET l == Load(files, FALSE, r.owner, r.repo, io) IN
                    l.err = NoErr /\ l.data[1].stargazers = <<>>
            /\ Exists(files, getFilename(r.owner, r.repo)) =>
                 \A io \in {"ok", "read_err"} :
                    (io = "read_err" \/ Unparseable(files, r)) =>
                       /\ Load(files, FALSE, r.owner, r.repo, io).err # NoErr
                       /\ \A l \in SnapshotLists :
                            /\ GetNewStargazers(files, "live", r.owner, r.repo,
                                                l, io).err # NoErr
                            /\ Save(files, FALSE, r.owner, r.repo, l, io).err # NoErr)
    /\ [][CallMade =>
            LET ret == st'["t1"].ret
                r == Repository(ret.owner, ret.repo) IN
            /\ (st'["t1"].pc = "idle" /\ ret.op = "Load" /\ ret.err # "ctx"
                  /\ ~Exists(files, getFilename(ret.owner, ret.repo))) =>
                 ret.err = NoErr /\ ret.data[1].stargazers = <<>>
            /\ (\E q \in StoreRepos : Unparseable(files, q)) =>
                 /\ st'["t1"].pc = "idle"
                 /\ ret.err # NoErr
                 /\ files' = files]_vars

\* Save has returned an error on a snapshot file that does not parse, and the
\* file is as it was.
MissingIsEmptyBrokenIsErrorWitness ==
    /\ st["t1"].pc = "idle"
    /\ st["t1"].ret.op = "Save"
    /\ st["t1"].ret.err = "load"
    /\ Unparseable(files, Repo1)

(***************************************************************************)
(* The Reloader: Start and Stop                                            *)
(***************************************************************************)
\* C27: once Stop has returned, and until a Start succeeds, the watcher is
\* closed and a watch loop that still runs has a cancelled context, whatever
\* calls of Start and Stop came before.
StopReleasesWatcher ==
    watch.stopped =>
        /\ watch.watcher = "closed"
        /\ ~watch.running
        /\ watch.goroutine = "running" => watch.ctx = "done"

(***************************************************************************)
(* The Reloader: callbacks before the swap                                 *)
(***************************************************************************)
\* The callbacks handleConfigChange copied are the first of those registered:
\* the others were registered after the copy was made.
CopiedAreFirstRegistered ==
    /\ Len(rl.callbacks) <= Len(callbacks)
    /\ SubSeq(callbacks, 1, Len(rl.callbacks)) = rl.callbacks

\* C28: r.config is replaced only when every callback registered at the
\* time the reload copied the list has been invoked, in the order of
\* registration, with the old and the new snapshot, and has returned nil; as
\* long as a callback of the reload is still to run or has failed, GetConfig
\* returns the old snapshot.
NotifyThenSwap ==
    /\ [](rl.pc \in {"callbacks", "swap"} \/ rl.result = "callback_failed"
            => config = rl.oldConfig[1])
    /\ [][config' # config =>
            /\ CopiedAreFirstRegistered
            /\ Len(invoked) = Len(rl.callbacks)
            /\ \A i \in 1..Len(invoked) :
                  /\ invoked[i].callback = rl.callbacks[i]
                  /\ invoked[i].callback = i
                  /\ invoked[i].oldConfig = config
                  /\ invoked[i].newConfig = config'
                  /\ invoked[i].err = NoErr]_vars

\* A reload with two callbacks has swapped the snapshot.
NotifyThenSwapWitness ==
    /\ rl.pc = "idle"
    /\ rl.result = "reloaded"
    /\ Len(rl.callbacks) >= 2
    /\ Len(invoked) = Len(rl.callbacks)
    /\ config = rl.newConfig[1]
    /\ config # rl.oldConfig[1]

(***************************************************************************)
(* The cadence-change signal                                               *)
(***************************************************************************)
\* C29: a cadence-change signal raised while the loop is busy stays pending
\* until the loop consumes it: when the signal of the last reload found the
\* loop busy, then once the reload is over and the loop waits in its select
\* again, the ticker runs at the check interval of the live configuration.
CadenceSignalStaysPending ==
    /\ loop.signal = "dropped"
    /\ rl.pc = "idle"
    /\ rl.result = "reloaded"
    /\ svc.pc = "idle"
    => loop.period = GetCheckInterval(config)

(***************************************************************************)
(* The reload callback and a check cycle in flight                         *)
(***************************************************************************)
\* The running cycle has a read of s.github still to make: checkRepository
\* is about to call s.github.GetStargazersWithRetry.
CycleReadsGitHub == svc.pc = "fetch"

\* The running cycle has a read of s.notifiers still to make: the range over
\* s.notifiers comes after the fetch and the diff.
CycleReadsNotifiers == svc.pc \in {"fetch", "diff"}

\* C30: the reload callback replaces neither the client nor the notifier
\* list while a running check cycle, which takes no lock and is ordered with
\* the callback by nothing, has a read of that field to make.
NoReplaceDuringCycle ==
    [][/\ loop'.github # loop.github => ~CycleReadsGitHub
       /\ notifiers' # notifiers => ~CycleReadsNotifiers]_vars

(***************************************************************************)
(* handleConfigReload: the rebuilt client and notifiers                    *)
(***************************************************************************)
\* The token or the timeout of the client differs between the snapshots.
CredentialsChanged(oldConfig, newConfig) ==
    \/ oldConfig.github_token # newConfig.github_token
    \/ GetGitHubTimeout(oldConfig) # GetGitHubTimeout(newConfig)

\* This step is handleConfigReload run by the reload in flight.
CallbackRuns == rl.pc = "callbacks" /\ Len(invoked') = Len(invoked) + 1

\* C31: handleConfigReload replaces the client exactly when the token or the
\* timeout changed, rebuilds the notifier list exactly when the provider
\* settings changed and then probes each rebuilt notifier, all of it while
\* GetConfig still returns the old snapshot; whatever the probes return the
\* callback returns nil, so no reload ends on a failed callback and the swap
\* follows.
RebuildInsideCallback ==
    /\ [][CallbackRuns =>
            LET oldConfig == rl.oldConfig[1]
                newConfig == rl.newConfig[1] IN
            /\ config = oldConfig /\ config' = oldConfig
            /\ loop'.github = IF CredentialsChanged(oldConfig, newConfig)
                              THEN GitHubClient(newConfig) ELSE loop.github
            /\ IF equalNotifications(oldConfig, newConfig)
               THEN notifiers' = notifiers /\ loop'.reprobes = <<>>
               ELSE /\ notifiers' = CreateNotifiers(newConfig)
                    /\ [k \in 1..Len(loop'.reprobes) |->
                          loop'.reprobes[k].provider] = notifiers'
            /\ invoked'[Len(invoked')].err = NoErr
            /\ rl'.pc = "swap"]_vars
    /\ [](rl.result # "callback_failed")
    /\ [][rl.pc = "swap" /\ rl' # rl =>
            config' = rl.newConfig[1] /\ rl'.result = "reloaded"]_vars

\* A reload that disabled Slack is over: the probe of the rebuilt Discord
\* notifier failed, and the new snapshot is live.
RebuildInsideCallbackWitness ==
    /\ rl.pc = "idle"
    /\ rl.result = "reloaded"
    /\ config = rl.newConfig[1]
    /\ notifiers = CreateNotifiers(config)
    /\ Len(loop.reprobes) >= 1
    /\ loop.reprobes[1].err # NoErr

(***************************************************************************)
(* The ChangeSet                                                           *)
(***************************************************************************)
\* C32: when the file of a reload is valid and detectChanges finds nothing
\* changed against the live snapshot, the reload ends there: no callback is
\* invoked in it and GetConfig returns the snapshot it returned before.
EmptyChangeSetSkips ==
    /\ [](rl.oldConfig # <<>> /\ rl.newConfig # <<>>
            /\ detectChanges(rl.oldConfig[1], rl.newConfig[1]) = <<>>
          => /\ rl.pc = "idle"
             /\ rl.result = "no_changes"
             /\ invoked = <<>>
             /\ config = rl.oldConfig[1])
    /\ [][rl'.result = "no_changes" /\ rl' # rl =>
            /\ ~Invalid(validateConfig(rl'.newConfig[1]))
            /\ config' = config
            /\ invoked' = <<>>]_vars

\* A reload of a file that differs from the live snapshot, in no tracked
\* facet, has ended with callbacks registered.
EmptyChangeSetSkipsWitness ==
    /\ rl.pc = "idle"
    /\ rl.result = "no_changes"
    /\ callbacks # <<>>
    /\ rl.newConfig[1] # config
    /\ config = rl.oldConfig[1]
    /\ invoked = <<>>

\* The names detectChanges can report, in the order it reports them.
Facets ==
    <<"repositories", "check_interval", "github_token", "github_timeout",
      "notifications", "log_level">>

\* The value of a tracked facet in a snapshot.
FacetValue(c, name) ==
    CASE name = "repositories" -> <<"repositories", c.repositories>>
      [] name = "check_interval" -> <<"minutes", c.check_interval_minutes>>
      [] name = "github_token" -> <<"token", c.github_token>>
      [] name = "github_timeout" -> <<"seconds", c.github_timeout>>
      [] name = "notifications" -> <<"notifications", c.discord, c.slack>>
      [] OTHER -> <<"level", c.log_level>>

\* The tracked facets whose values differ, in the order of Facets.
Differing(a, b) ==
    SelectSeq(Facets, LAMBDA name : FacetValue(a, name) # FacetValue(b, name))

\* C33: for the live snapshot and any file that loads, detectChanges names
\* exactly the tracked facets whose values differ, each once, and nothing
\* when none differs; entity lists with the same entities in another order
\* differ; and a reload goes past the test of the empty ChangeSet exactly
\* when some tracked facet differs.
ChangeSetExact ==
    /\ [](\A file \in ChangeFiles :
            LET newConfig == LoadConfig(file).cfg[1] IN
            /\ detectChanges(config, newConfig) = Differing(config, newConfig)
            /\ detectChanges(newConfig, config) = detectChanges(config, newConfig)
            /\ detectChanges(config, newConfig) = <<>>
                 <=> \A k \in DOMAIN Facets :
                        FacetValue(config, Facets[k]) = FacetValue(newConfig, Facets[k]))
    /\ [][rl' # rl /\ rl.pc = "idle" /\ rl'.oldConfig # <<>> =>
            (rl'.result = "no_changes"
               <=> Differing(rl'.oldConfig[1], rl'.newConfig[1]) = <<>>)]_vars

\* A reload whose file lists the same two entities in the other order, and
\* changes nothing else, was adopted.
ChangeSetExactWitness ==
    /\ rl.pc = "idle"
    /\ rl.result = "reloaded"
    /\ rl.oldConfig[1].repositories = <<Repo1, Repo2>>
    /\ rl.newConfig[1].repositories = <<Repo2, Repo1>>
    /\ detectChanges(rl.oldConfig[1], rl.newConfig[1]) = <<"repositories">>
    /\ config = rl.newConfig[1]

(***************************************************************************)
(* Cancellation in the rate limiter                                        *)
(***************************************************************************)
\* The call waits in RateLimiter.Wait and its context is done.
WaitCancelled == rc.pc = "ratewait" /\ callCtx = "done"

\* C34: when the context is cancelled while NotifyNewStars waits in the rate
\* limiter, the call returns the cancellation error in its next step: no
\* request is made for that delivery, lastNotification stays as it was, and
\* the RetryableNotifier begins no further attempt.
CancelledWaitAbortsDelivery ==
    [][WaitCancelled =>
         /\ rc'.pc = "done"
         /\ rc'.ret = ErrCtx
         /\ limiter' = limiter
         /\ transport' = transport
         /\ Len(rc'.attempts) = Len(rc.attempts)
         /\ rc'.attempts[Len(rc'.attempts)].requests = <<>>
         /\ rc'.attempts[Len(rc'.attempts)].err = ErrCtx]_vars

\* A delivery whose first attempt failed was cancelled while its second
\* attempt waited in the rate limiter, and has returned.
CancelledWaitAbortsDeliveryWitness ==
    /\ rc.pc = "done"
    /\ rc.op = "NotifyNewStars"
    /\ rc.ret = ErrCtx
    /\ Len(rc.attempts) = 2
    /\ rc.cancelledAt = <<2>>
    /\ rc.attempts[1].requests # <<>>
    /\ rc.attempts[2].requests = <<>>
    /\ limiter.since < RateLimitWindow

(***************************************************************************)
(* The StateStore: concurrent Saves                                        *)
(***************************************************************************)
\* Thread t is inside Save, between its loadUnsafe and its return.
InSave(t) == st[t].pc \in {"write", "writing", "rename"}

\* C35: Saves of the same entity by two threads exclude each other: at most
\* one thread is inside Save, and it holds the lock from its load to its
\* rename; the snapshot file holds the list of the Save that renamed last
\* and, as previous_data, the list of the Save that renamed before it; and
\* no Load returns while a Save is between its load and its rename.
SavesSerialize ==
    /\ [](\A t, u \in Threads : InSave(t) /\ InSave(u) => t = u)
    /\ [](\A t \in Threads : InSave(t) => mutex = t)
    /\ [](\A r \in StoreRepos :
            history[r] # <<>> =>
              /\ SnapshotFile(files, r) # <<>>
              /\ SnapshotFile(files, r)[1].intact
              /\ SnapshotDoc(files, r).stargazers = history[r][Len(history[r])]
              /\ IF Len(history[r]) = 2 /\ history[r][1] # <<>>
                 THEN /\ "previous_data" \in DOMAIN SnapshotDoc(files, r)
                      /\ SnapshotDoc(files, r).previous_data.stargazers
                           = history[r][1]
                 ELSE "previous_data" \notin DOMAIN SnapshotDoc(files, r))
    /\ [][\A t \in Threads :
            (st'[t] # st[t] /\ st'[t].ret.op = "Load") =>
               \A u \in Threads : ~InSave(u)]_vars

\* Both threads have saved the entity, the second over the list of the first.
SavesSerializeWitness ==
    /\ st["t1"].ret.op = "Save" /\ st["t1"].ret.err = NoErr
    /\ st["t2"].ret.op = "Save" /\ st["t2"].ret.err = NoErr
    /\ st["t1"].pc = "idle" /\ st["t2"].pc = "idle"
    /\ st["t1"].ret.arg = <<SgA, SgB>>
    /\ st["t2"].ret.arg = <<SgA, SgB, SgC>>
    /\ history[Repo1] = <<<<SgA, SgB>>, <<SgA, SgB, SgC>>>>

(***************************************************************************)
(* The notifier factory                                                    *)
(***************************************************************************)
\* The provider settings the factory is given: each provider on or off.
FactoryConfigs ==
    {[BaseDoc EXCEPT !.discord = DiscordConfig("https://discord/hook", d),
                     !.slack = SlackConfig("https://slack/hook", "#stars", s)] :
        d \in BOOLEAN, s \in BOOLEAN}

\* C36: CreateNotifiersWithConfig returns one notifier per enabled provider,
\* Discord before Slack and none when none is enabled; CreateNotifierWithConfig
\* returns an error for an unknown type; every notifier returned is a
\* RetryableNotifier around a RateLimitedNotifier around the base notifier
\* and reports the name of the base; and every request of NotifyNewStars,
\* of a first attempt or of a retry, is made in a step in which the rate
\* limiter has let it through and recorded it.
FactoryComposition ==
    /\ [](\A c \in FactoryConfigs :
            LET ns == CreateNotifiersWithConfig(c) IN
            /\ [k \in DOMAIN ns |-> GetProviderName(ns[k])]
                 = (IF c.discord.enabled THEN <<ProviderDiscord>> ELSE <<>>)
                   \o (IF c.slack.enabled THEN <<ProviderSlack>> ELSE <<>>)
            /\ [k \in DOMAIN ns |-> GetProviderName(ns[k])] = CreateNotifiers(c)
            /\ \A k \in DOMAIN ns :
                  Decorators(ns[k]) = <<"retryable", "rate_limited">>)
    /\ [](/\ CreateNotifierWithConfig("invalid").err # NoErr
          /\ CreateNotifierWithConfig("invalid").notifier = <<>>
          /\ \A p \in {ProviderDiscord, ProviderSlack} :
                /\ CreateNotifierWithConfig(p).err = NoErr
                /\ GetProviderName(CreateNotifierWithConfig(p).notifier[1]) = p
                /\ Decorators(CreateNotifierWithConfig(p).notifier[1])
                     = <<"retryable", "rate_limited">>)
    /\ [][Len(transport'.gaps) > Len(transport.gaps) =>
            /\ limiter'.since = 0
            /\ \/ rc.pc = "attempt" /\ Allow(limiter.since)
               \/ rc.pc = "ratewait" /\ rc.left = 0]_vars

\* The third attempt of a delivery has made its request, after a wait in the
\* rate limiter.
FactoryCompositionWitness ==
    /\ rc.op = "NotifyNewStars"
    /\ rc.pc = "inflight"
    /\ Len(rc.attempts) = 3
    /\ Len(transport.gaps) = 3
    /\ limiter.since = 0

(***************************************************************************)
(* Stop and a reload in flight                                             *)
(***************************************************************************)
\* This step is handleConfigReload reaching its send on s.tickerUpdate.
SignalRaised ==
    /\ rl.pc = "callbacks"
    /\ rl' # rl
    /\ GetCheckInterval(rl.oldConfig[1]) # GetCheckInterval(rl.newConfig[1])

\* C37: handleConfigReload never sends on s.tickerUpdate once Stop has
\* closed the channel, however Stop and the reload interleave.
NoSendAfterClose ==
    [][SignalRaised => loop.tickerUpdate # "closed"]_vars

(***************************************************************************)
(* Validation at startup and at reload                                     *)
(***************************************************************************)
\* The service can start with the file: config.Load accepts it, and the
\* ticker of Start can be made (time.NewTicker panics on an interval that is
\* not positive).
CanStartWith(file) ==
    /\ LoadConfig(file).err = NoErr
    /\ GetCheckInterval(LoadConfig(file).cfg[1]) > 0

\* C38: a reload of a file the service can start with, which differs from
\* the live snapshot in a tracked facet, goes on to the callbacks and the
\* swap: validateConfig rejects nothing that startup accepts.
ReloadAcceptsWhatStartupAccepts ==
    [][(timer /\ rl.pc = "idle" /\ rl' # rl
          /\ CanStartWith(configFile)
          /\ detectChanges(config, LoadConfig(configFile).cfg[1]) # <<>>)
         => /\ rl'.pc \in {"callbacks", "swap"}
            /\ rl'.newConfig = LoadConfig(configFile).cfg]_vars

(***************************************************************************)
(* The StateStore: one snapshot per entity                                 *)
(***************************************************************************)
\* C39: a successful Save of one entity changes neither what Load returns
\* nor what GetNewStargazers returns for any other entity.
SaveLeavesOtherEntities ==
    [][\A t \in Threads, r \in Repos, q \in Repos :
          (SaveSucceeded(t, r) /\ q # r) =>
             /\ Load(files', FALSE, q.owner, q.repo, "ok")
                  = Load(files, FALSE, q.owner, q.repo, "ok")
             /\ \A l \in SnapshotLists :
                  GetNewStargazers(files', "live", q.owner, q.repo, l, "ok")
                    = GetNewStargazers(files, "live", q.owner, q.repo, l, "ok")
      ]_vars

(***************************************************************************)
(* Dedup over successive cycles                                            *)
(***************************************************************************)
\* This step is checkRepository returning nil: fetch, Diff and Save of the
\* entity succeeded.
CheckSucceeded ==
    /\ Len(checked') > Len(checked)
    /\ checked'[Len(checked')].err = NoErr

\* C40: when a check of an entity succeeds, none of the identities it handed
\* to the notifiers was handed to them in an earlier cycle of that entity
\* and has been in every list fetched for it since, all of those cycles
\* having succeeded.
DedupByIdentity ==
    [][(CheckSucceeded /\ svc.ns # <<>>) =>
          IDsOf(svc.newStargazers) \cap loop.delivered[Current] = {}]_vars

=============================================================================
